---- MODULE Spec2Model ----
(***************************************************************************)
(* Model of the agnostic-agent-api negotiate/commit core.                  *)
(*                                                                         *)
(* Two suppliers are modelled from their sources:                          *)
(*   "AF" - src/agent_supplier.py   (price 480, offerId derived from the   *)
(*          request's transactionId)                                       *)
(*   "B"  - src/agent_supplier_2.py (price 475, offerId drawn with uuid4)  *)
(*                                                                         *)
(* Strings that the code builds with '-' separators are modelled as        *)
(* sequences of their '-'-separated segments, so that concatenation and    *)
(* split('-') are computed and not assumed.  An Optional value is a        *)
(* sequence of length 0 (None) or 1.  Prices are whole currency units.     *)
(*                                                                         *)
(* Beside the suppliers, the module models                                 *)
(*   src/agent_directory.py - GET /discover over the registry,             *)
(*   src/agent_client.py    - _sign_task, nlu_phase_llm,                   *)
(*                            core_processing_phase and run_agent_turn,    *)
(*   src/orchestrator.py    - GET /manifest, POST /chat_turn and           *)
(*                            POST /generate_response behind               *)
(*                            require_api_key,                             *)
(*   the client orchestrator of section 4.3 of the specification, of       *)
(*                            which the repository holds no source.        *)
(* Each of them has its own specification (SpecDirectory, SpecSigner,      *)
(* SpecVerifier, SpecOrchestrator, SpecConversation, SpecClient) over the  *)
(* one set of variables; SpecIntents sends the suppliers any intent.  JSON *)
(* values are tagged tuples; a JSON object keeps its items in insertion    *)
(* order, and a JSON string is the sequence of the segments it was built   *)
(* from.  Signatures are ideal: one signature per key and data.            *)
(***************************************************************************)
EXTENDS Integers, Sequences, FiniteSets, TLC

\* ---------------------------------------------------------------- bounds
\* Total number of HTTP requests sent to the suppliers in one behaviour.
MaxRequests == 3
\* Number of commit requests that may be in flight at one supplier.
MaxInFlight == 2
\* Last tick of the model clock.
MaxClock == 2

\* ------------------------------------------------------------- constants
Suppliers == {"AF", "B"}

\* transactionId values the clients send ("tx-1", "tx-2").
TransactionIds == {<<"tx", "1">>, <<"tx", "2">>}

\* agent_supplier.py: OUR_PRICE = 480
OUR_PRICE_AF == 480
\* agent_supplier_2.py: OUR_PRICE = 475.00
OUR_PRICE == 475
OUR_CURRENCY == "EUR"
OUR_NAME == "AirDemo (Competitor)"

\* The tick of the model clock that stands for the instant
\* "2025-11-15T12:30:00Z" written into every offer of agent_supplier.py.
ExpiresAtTick == 1

None == <<>>
Some(x) == <<x>>

Last(seq) == seq[Len(seq)]

VARIABLES
    db_valid_offers,   \* [Suppliers -> ledger]: offerId -> Offer, per supplier
    inflight,          \* [Suppliers -> set of CommitRequest]: received, handler not started
    started,           \* [Suppliers -> set of CommitRequest]: handler past the membership test
    uuid_count,        \* number of uuid4() draws made by agent_supplier_2
    nreq,              \* number of requests sent so far
    resp,              \* the response sent last
    now,               \* the model clock
    issued,            \* [Suppliers -> the (offerId, transactionId) of every offer issued]
    committed,         \* [Suppliers -> offerIds for which a commit returned CONFIRMED]
    spent,             \* [Suppliers -> offerIds CONFIRMED since the last negotiate there]
    unclaimed,         \* [Suppliers -> offerIds issued and not answered by a commit since]
    confirmations      \* [Suppliers -> the (transactionId, confirmationId) of every CONFIRMED]

\* agent_directory.py
VARIABLES
    REGISTERED_SUPPLIERS,  \* the registry: SupplierInfo records in insertion order
    discovery,             \* the GET /discover answered last: request and response
    looked_up,             \* whether the handler of that request reached the registry
    repeated               \* whether that request repeated the one before it

\* agent_client.py, _sign_task
VARIABLES
    AGENT_PRIVATE_KEY,     \* the key load_pem_private_key returned at import
    task_object,           \* the task object a caller built
    signed_task,           \* what _sign_task returned for task_object
    rebuilt,               \* the same object built again, in any insertion order
    signed_again,          \* what _sign_task returned for rebuilt
    received,              \* signed_task as it reaches the party that verifies it
    tampering              \* what was changed in it on the way

\* orchestrator.py, /chat_turn
VARIABLES
    chat,                  \* the POST /chat_turn answered last: request and response
    turn,                  \* what agent.run_agent_turn returned while it was handled
    reply                  \* the GET /manifest or POST /generate_response answered last

\* the client orchestrator of one shopping attempt
VARIABLES
    discovered,            \* the SupplierInfo list Directory.discover returned, or NotCalled
    negotiations,          \* per discovered supplier: its transactionId and how its call settled
    offers,                \* the result of the round once it completed, or NotCalled
    selection,             \* what selectBest returned, or NotCalled
    commits,               \* every request the client sent to a supplier after the round
    report                 \* what the attempt reported to its caller, or None

supplierVars == <<db_valid_offers, inflight, started, uuid_count, nreq, resp, now,
                  issued, committed, spent, unclaimed, confirmations>>
directoryVars == <<REGISTERED_SUPPLIERS, discovery, looked_up, repeated>>
signerVars == <<AGENT_PRIVATE_KEY, task_object, signed_task, rebuilt, signed_again,
                received, tampering>>
orchestratorVars == <<chat, turn, reply>>
clientVars == <<discovered, negotiations, offers, selection, commits, report>>

\* What the endpoints of the suppliers leave alone.
outsideSuppliers == <<directoryVars, signerVars, orchestratorVars, clientVars>>
\* What the endpoint of the directory leaves alone.
outsideDirectory == <<supplierVars, signerVars, orchestratorVars, clientVars>>
\* What signing and verifying leave alone.
outsideSigner == <<supplierVars, directoryVars, orchestratorVars, clientVars>>
\* What /chat_turn leaves alone.
outsideOrchestrator ==
    <<supplierVars, directoryVars, task_object, signed_task, rebuilt, signed_again,
      received, tampering, clientVars>>
\* What a shopping attempt of the client leaves alone.
outsideClient == <<supplierVars, directoryVars, signerVars, orchestratorVars>>

vars == <<supplierVars, directoryVars, signerVars, orchestratorVars, clientVars>>

\* ------------------------------------------------------- dict operations
EmptyDict == [k \in {} |-> {}]

DictKeys(d) == DOMAIN d

\* `key in d`
DictContains(d, key) == key \in DOMAIN d

\* d[key] = value
DictSet(d, key, value) ==
    [k \in (DOMAIN d) \cup {key} |-> IF k = key THEN value ELSE d[k]]

\* A pop that leaves the entry in place.
DictPopKeeps(d, key) == d

\* A removal that empties the dict.
DictClear(d, key) == EmptyDict

\* d.pop(key): the dict without key (KeyError when key is absent is raised
\* by the caller's guard, see CommitPop).
DictPop(d, key) == [k \in (DOMAIN d) \ {key} |-> d[k]]

\* ------------------------------------------------ agent_supplier.py (AF)
\* An offerId that leaves the transactionId out.
OUR_OFFER_ID_Static(transactionId) == <<"offer", "af">>

\* OUR_OFFER_ID = f"offer-af-{request.transactionId}"
OUR_OFFER_ID(transactionId) == <<"offer", "af">> \o transactionId

\* The comparison with <= in place of <.
BudgetTooLowInclusive(client_max_price) ==
    client_max_price # None /\ client_max_price[1] <= OUR_PRICE_AF

\* client_max_price is not None and client_max_price < OUR_PRICE
BudgetTooLow(client_max_price) ==
    client_max_price # None /\ client_max_price[1] < OUR_PRICE_AF

\* The Offer built at lines 127-140.
static_offer(offer_id) ==
    [offerId        |-> offer_id,
     serviceType    |-> "booking:flight",
     details        |-> [flight |-> "AF006"],
     price          |-> OUR_PRICE_AF,
     currency       |-> "EUR",
     expiresAt      |-> ExpiresAtTick,
     commitEndpoint |-> "/atp/v1/commit"]

\* A handler that saves the offer before it looks at the budget.
negotiate_transaction_SavesFirst(request, db) ==
    [db   |-> DictSet(db, OUR_OFFER_ID(request.transactionId),
                      static_offer(OUR_OFFER_ID(request.transactionId))),
     body |-> IF BudgetTooLow(request.maxPrice)
              THEN [transactionId |-> request.transactionId,
                    negotiationId |-> <<"uuid", "supplier", "v0.3", "reject">>,
                    offers        |-> <<>>,
                    rejections    |-> <<[reasonCode |-> "PRICE_UNMET",
                                         message    |-> <<OUR_PRICE_AF, request.maxPrice[1]>>]>>]
              ELSE [transactionId |-> request.transactionId,
                    negotiationId |-> <<"uuid", "supplier", "v0.3", "offer">>,
                    offers        |-> <<static_offer(OUR_OFFER_ID(request.transactionId))>>,
                    rejections    |-> <<>>]]

\* A handler that rejects an Intent in a currency other than its own.
negotiate_transaction_OwnCurrency(request, db) ==
    IF BudgetTooLow(request.maxPrice) \/ request.currency \notin {None, Some("EUR")}
    THEN [db   |-> db,
          body |-> [transactionId |-> request.transactionId,
                    negotiationId |-> <<"uuid", "supplier", "v0.3", "reject">>,
                    offers        |-> <<>>,
                    rejections    |-> <<[reasonCode |-> "PRICE_UNMET",
                                         message    |-> <<OUR_PRICE_AF, request.maxPrice>>]>>]]
    ELSE [db   |-> DictSet(db, OUR_OFFER_ID(request.transactionId),
                           static_offer(OUR_OFFER_ID(request.transactionId))),
          body |-> [transactionId |-> request.transactionId,
                    negotiationId |-> <<"uuid", "supplier", "v0.3", "offer">>,
                    offers        |-> <<static_offer(OUR_OFFER_ID(request.transactionId))>>,
                    rejections    |-> <<>>]]

\* The handler of POST /atp/v1/negotiate: the ledger it leaves and the
\* OfferResponse it returns.
negotiate_transaction(request, db) ==
    IF BudgetTooLow(request.maxPrice)
    THEN [db   |-> db,
          body |-> [transactionId |-> request.transactionId,
                    negotiationId |-> <<"uuid", "supplier", "v0.3", "reject">>,
                    offers        |-> <<>>,
                    rejections    |-> <<[reasonCode |-> "PRICE_UNMET",
                                         message    |-> <<OUR_PRICE_AF, request.maxPrice[1]>>]>>]]
    ELSE [db   |-> DictSet(db, OUR_OFFER_ID(request.transactionId),
                           static_offer(OUR_OFFER_ID(request.transactionId))),
          body |-> [transactionId |-> request.transactionId,
                    negotiationId |-> <<"uuid", "supplier", "v0.3", "offer">>,
                    offers        |-> <<static_offer(OUR_OFFER_ID(request.transactionId))>>,
                    rejections    |-> <<>>]]

\* The CommitResponse built at lines 187-197.
commit_transaction_response(request) ==
    [transactionId  |-> request.transactionId,
     commitId       |-> <<"commit">> \o request.offerId,
     status         |-> "CONFIRMED",
     confirmationId |-> <<"CONF", Last(request.transactionId)>>,
     message        |-> "Your flight is confirmed."]

\* ---------------------------------------------- agent_supplier_2.py (B)
\* uuid.uuid4(): the value of the draw that follows n earlier draws.  The
\* generator is modelled as never repeating a value.
uuid4(n) == ToString(n + 1)

\* client_max_price >= OUR_PRICE
BudgetAcceptable(client_max_price) == client_max_price[1] >= OUR_PRICE

\* The Offer built at lines 139-144 and 163-168.
new_offer(offer_id) ==
    [offerId        |-> offer_id,
     price          |-> OUR_PRICE,
     currency       |-> OUR_CURRENCY,
     commitEndpoint |-> "/atp/v1/commit"]

\* The handler of POST /atp/v1/negotiate: the ledger it leaves, the
\* NegotiateResponse it returns and the number of uuid4 draws afterwards.
\* The first draw names the negotiation, the second (if any) the offer.
negotiate(request, db, n) ==
    LET negotiation_id == <<"uuid", "supplier", "B", uuid4(n)>>
        offer_id       == <<"offer", "B", uuid4(n + 1)>>
        offering       == [db   |-> DictSet(db, offer_id, new_offer(offer_id)),
                           uuid_count |-> n + 2,
                           body |-> [transactionId |-> request.transactionId,
                                     negotiationId |-> negotiation_id,
                                     offers        |-> <<new_offer(offer_id)>>,
                                     rejections    |-> <<>>]]
        rejecting      == [db   |-> db,
                           uuid_count |-> n + 1,
                           body |-> [transactionId |-> request.transactionId,
                                     negotiationId |-> negotiation_id,
                                     offers        |-> <<>>,
                                     rejections    |-> <<[reasonCode |-> "BUDGET_TOO_LOW",
                                                          message    |-> <<request.maxPrice[1], OUR_PRICE>>]>>]]
    IN  IF request.maxPrice # None
        THEN IF BudgetAcceptable(request.maxPrice) THEN offering ELSE rejecting
        ELSE offering

\* The CommitResponse built at lines 204-211; one uuid4 draw.
commit_response(request, n) ==
    [transactionId  |-> request.transactionId,
     offerId        |-> request.offerId,
     status         |-> "CONFIRMED",
     confirmationId |-> <<"conf", "B", uuid4(n)>>,
     message        |-> <<"Booking confirmed via", OUR_NAME>>]

\* ------------------------------------------------------------- requests
\* maxPrice values sent to a supplier: absent, and one below, at and one
\* above the supplier's price.
SupplierPrice(s) == IF s = "AF" THEN OUR_PRICE_AF ELSE OUR_PRICE

MaxPriceInputs(s) ==
    {None, Some(SupplierPrice(s) - 1), Some(SupplierPrice(s)), Some(SupplierPrice(s) + 1)}

\* IntentRequest: intent.params as one value, intent.constraints as the
\* fields maxPrice and currency.
IntentRequestOf(transactionId, requesterId, serviceType, params, maxPrice, currency) ==
    [transactionId |-> transactionId,
     requesterId   |-> requesterId,
     serviceType   |-> serviceType,
     params        |-> params,
     maxPrice      |-> maxPrice,
     currency      |-> currency]

\* The flight search of the demo client, in EUR.
IntentRequest(transactionId, maxPrice) ==
    IntentRequestOf(transactionId, "urn:client:demo", "booking:flight",
                    <<"CDG", "JFK", "2025-11-15">>, maxPrice, Some("EUR"))

\* requesterId, serviceType, params and currency of a request: the demo
\* client's, the demo client's with one of them changed, and all changed.
IntentFieldInputs ==
    LET demo  == <<"urn:client:demo", "booking:flight", <<"CDG", "JFK", "2025-11-15">>,
                   Some("EUR")>>
        other == <<"urn:client:other", "booking:hotel", <<"LHR", "NRT", "2026-01-01">>,
                   Some("USD")>>
    IN  {demo, other, [demo EXCEPT ![4] = None]}
            \cup {[demo EXCEPT ![i] = other[i]] : i \in 1..4}

\* The valid IntentRequests sent to supplier s.
IntentRequestInputs(s) ==
    {IntentRequestOf(transactionId, f[1], f[2], f[3], maxPrice, f[4]) :
        transactionId \in TransactionIds, maxPrice \in MaxPriceInputs(s),
        f \in IntentFieldInputs}

\* CommitRequest; id numbers the HTTP request it arrived in.
CommitRequest(id, transactionId, offerId) ==
    [id |-> id, transactionId |-> transactionId, offerId |-> offerId]

\* offerIds a client can put into a commit: the ones agent_supplier.py
\* derives from a transactionId (known without negotiating) and the ones
\* agent_supplier_2.py has returned so far.
IssuedIds(s) == {e.offerId : e \in issued[s]}

CommitOfferIds ==
    {OUR_OFFER_ID(t) : t \in TransactionIds} \cup IssuedIds("B")

\* ------------------------------------------------------------ responses
Response(id, s, op, status, request, body) ==
    [id |-> id, supplier |-> s, op |-> op, status |-> status,
     request |-> request, body |-> body]

NoResponse == Response(0, "", "", 0, <<>>, <<>>)

\* HTTPException(status_code=404, ...) of either commit handler.
NotFound(request) == [detail |-> <<"Offer ID", request.offerId, "not found or expired">>]

\* An exception that escapes a handler (KeyError of dict.pop).
InternalServerError == [detail |-> <<"Internal Server Error">>]

\* ----------------------------------------------------------- scheduling
\* Handlers that may be started while another one is between its steps.
EventLoopShared(s) == TRUE

\* Both suppliers are asyncio applications: a handler coroutine keeps the
\* event loop until it awaits or returns, and no handler body contains an
\* await.  A handler is therefore started only while no other handler of
\* the same supplier is between two of its steps.
EventLoopFree(s) == started[s] = {}

\* ====================================================== agent_directory.py
\* Most entries a drawn registry holds.
MaxSuppliers == 2

DIRECTORY_API_KEY == "dummy-secret-key-12345"

SupplierInfo(supplierId, name, baseUrl, supportedServices, isVerified) ==
    [supplierId |-> supplierId, name |-> name, baseUrl |-> baseUrl,
     supportedServices |-> supportedServices, isVerified |-> isVerified]

\* REGISTERED_SUPPLIERS as the module defines it: the values of the dict
\* in the order of their insertion.
REGISTERED_SUPPLIERS_Source ==
    << SupplierInfo("urn:as:flight-supplier-demo:001", "Demo Flight Supplier (AS)",
                    "http://127.0.0.1:8000", <<"booking:flight", "booking:hotel">>, TRUE),
       SupplierInfo("urn:as:weather-supplier-demo:002", "Demo Weather Supplier",
                    "http://127.0.0.1:8002", <<"weather:forecast">>, TRUE),
       SupplierInfo("urn:as:airdemo-competitor:003", "AirDemo (Competitor)",
                    "http://127.0.0.1:8003", <<"booking:flight">>, TRUE),
       SupplierInfo("urn:as:unverified-flyer:004", "FlyByNight Airways (Unverified)",
                    "http://127.0.0.1:8004", <<"booking:flight">>, FALSE) >>

\* The service types the registry names.
ServiceTypes == {"booking:flight", "booking:hotel", "weather:forecast"}

\* supportedServices lists a drawn registry entry can carry.
SupportedServicesInputs ==
    {<<>>, <<"booking:flight">>, <<"weather:forecast">>, <<"booking:flight", "booking:hotel">>}

\* Registries of n entries: entry i is registered under the key of the
\* i-th entry of the module's registry, with any supportedServices and
\* any isVerified.
RegistriesOfLen(n) ==
    {[i \in 1..n |->
        SupplierInfo(REGISTERED_SUPPLIERS_Source[i].supplierId,
                     REGISTERED_SUPPLIERS_Source[i].name,
                     REGISTERED_SUPPLIERS_Source[i].baseUrl,
                     c[i].supportedServices, c[i].isVerified)] :
        c \in [1..n -> [supportedServices : SupportedServicesInputs, isVerified : BOOLEAN]]}

RegistryInputs ==
    {REGISTERED_SUPPLIERS_Source} \cup UNION {RegistriesOfLen(n) : n \in 0..MaxSuppliers}

\* The X-ATP-Directory-Key header of a request: absent, wrong, right.
ApiKeyInputs == {None, Some("wrong-key"), Some(DIRECTORY_API_KEY)}

\* The requireVerified query parameter: absent, true, false.
RequireVerifiedInputs == {None, Some(TRUE), Some(FALSE)}

DiscoverRequest(service_type, requireVerified, api_key) ==
    [serviceType |-> service_type, requireVerified |-> requireVerified, api_key |-> api_key]

\* A trust filter that is off unless the request asks for it.
min_trust_default_off(request) ==
    IF request.requireVerified = None THEN FALSE ELSE request.requireVerified[1]

\* min_trust: bool = Query(True, alias="requireVerified")
min_trust(request) ==
    IF request.requireVerified = None THEN TRUE ELSE request.requireVerified[1]

\* APIKeyHeader(name=API_KEY_NAME, auto_error=True) answers a request
\* without the header itself.  The status it answers with is the
\* library's: 403 in older releases of FastAPI, 401 in recent ones.
AutoErrorStatus == {401, 403}

\* get_api_key: the key is the directory's key.
get_api_key(api_key) == api_key = DIRECTORY_API_KEY

\* `service_type in supplier.supportedServices`
InList(x, list) == \E i \in 1..Len(list) : list[i] = x

\* A trust filter that skips no supplier.
SkipNoSupplier(trust, supplier) == FALSE

\* `if min_trust and not supplier.isVerified: continue`
SkipUnverified(trust, supplier) == trust /\ ~supplier.isVerified

\* Adding a supplier in front of the ones found so far.
found_suppliers_prepend(found_suppliers, supplier) == <<supplier>> \o found_suppliers

\* found_suppliers.append(supplier)
found_suppliers_append(found_suppliers, supplier) == Append(found_suppliers, supplier)

\* The loop `for supplier in REGISTERED_SUPPLIERS.values()` over the
\* values still to visit.
RECURSIVE find_suppliers(_, _, _, _)
find_suppliers(values, service_type, trust, found_suppliers) ==
    IF values = <<>>
    THEN found_suppliers
    ELSE LET supplier == Head(values)
         IN  find_suppliers(Tail(values), service_type, trust,
                 IF /\ InList(service_type, supplier.supportedServices)
                    /\ ~SkipUnverified(trust, supplier)
                 THEN found_suppliers_append(found_suppliers, supplier)
                 ELSE found_suppliers)

\* A handler that answers whatever it found.
AlwaysFound(found_suppliers) == FALSE

\* `if not found_suppliers`
NoSuppliersFound(found_suppliers) == found_suppliers = <<>>

\* The body of discover_suppliers, run once its dependency returned.
discover_suppliers(service_type, trust, registry) ==
    LET found_suppliers == find_suppliers(registry, service_type, trust, <<>>)
    IN  IF NoSuppliersFound(found_suppliers)
        THEN [status |-> 404,
              body |-> [detail |-> <<"No suppliers found matching criteria for service:",
                                     service_type>>]]
        ELSE [status |-> 200,
              body |-> [serviceType |-> service_type, suppliers |-> found_suppliers]]

\* GET /discover from the header to the response: the header check of
\* api_key_header, then get_api_key, then discover_suppliers.
discover(request, registry, auto_error) ==
    IF request.api_key = None
    THEN [status |-> auto_error, body |-> [detail |-> <<"Not authenticated">>],
          looked_up |-> FALSE]
    ELSE IF ~get_api_key(request.api_key[1])
    THEN [status |-> 403, body |-> [detail |-> <<"Invalid or missing API Key">>],
          looked_up |-> FALSE]
    ELSE LET out == discover_suppliers(request.serviceType, min_trust(request), registry)
         IN  [status |-> out.status, body |-> out.body, looked_up |-> TRUE]

Discovery(request, status, body) == [request |-> request, status |-> status, body |-> body]

NoDiscovery == Discovery(<<>>, 0, <<>>)

\* The directory as the module leaves it, before any request.
DirectoryIdle ==
    /\ REGISTERED_SUPPLIERS = REGISTERED_SUPPLIERS_Source
    /\ discovery = NoDiscovery
    /\ looked_up = FALSE
    /\ repeated = FALSE

\* ================================================= agent_client.py: signing
\* Most keys an object of a drawn task holds.
MaxKeys == 2

\* JSON values: strings, numbers, null and objects.  A string is the
\* sequence of the segments it was put together from; an object is the
\* sequence of its (key, value) pairs in insertion order, as a Python
\* dict keeps them.
Str(x) == <<"str", x>>
Num(n) == <<"num", n>>
Null == <<"null", <<>>>>
Obj(pairs) == <<"obj", pairs>>
Pair(key, value) == <<key, value>>
IsObj(value) == value[1] = "obj"
Items(object) == object[2]
KeyOf(pair) == pair[1]
ValueOf(pair) == pair[2]

\* The keys of the task objects and of the items they refer to, in the
\* order Python sorts them (by code point).
KeyOrder == <<"auth_token", "id", "item_id", "price", "query", "task_name", "type">>

Rank(key) == CHOOSE i \in 1..Len(KeyOrder) : KeyOrder[i] = key

\* The items of a dict as it holds them.
unsorted_items(pairs) == pairs

\* sort_keys=True: the items of a dict ordered by key.
RECURSIVE sorted_items(_)
sorted_items(pairs) ==
    IF pairs = <<>>
    THEN <<>>
    ELSE LET m == CHOOSE i \in 1..Len(pairs) :
                      \A j \in 1..Len(pairs) : Rank(KeyOf(pairs[i])) <= Rank(KeyOf(pairs[j]))
         IN  <<pairs[m]>> \o
             sorted_items([i \in 1..(Len(pairs) - 1) |->
                              IF i < m THEN pairs[i] ELSE pairs[i + 1]])

\* A string that serializes without its content.
dumps_str_blank(x) == <<"\"", "\"">>

\* A JSON string.
dumps_str(x) == <<"\"">> \o x \o <<"\"">>

\* json.dumps(value, sort_keys=True, separators=(',', ':')) as the
\* sequence of the tokens it writes.
RECURSIVE json_dumps(_)
RECURSIVE dumps_items(_)
dumps_items(pairs) ==
    IF pairs = <<>>
    THEN <<>>
    ELSE dumps_str(<<KeyOf(pairs[1])>>) \o <<":">> \o json_dumps(ValueOf(pairs[1]))
            \o (IF Len(pairs) = 1 THEN <<>> ELSE <<",">> \o dumps_items(Tail(pairs)))

json_dumps(value) ==
    IF IsObj(value)
    THEN <<"{">> \o dumps_items(sorted_items(Items(value))) \o <<"}">>
    ELSE IF value[1] = "num"
    THEN <<ToString(value[2])>>
    ELSE IF value = Null
    THEN <<"null">>
    ELSE dumps_str(value[2])

\* The keys load_pem_private_key can return for AGENT_PRIVATE_KEY: the
\* Ed25519 key the module asks for, or a key of another kind, whose
\* sign() wants more arguments than the data.
PrivateKeyInputs ==
    {[kind |-> "Ed25519", owner |-> "agent"], [kind |-> "RSA", owner |-> "agent"]}

\* AGENT_PRIVATE_KEY.sign(task_json) raises (TypeError) for a key that is
\* not an Ed25519 key.
SignRaises(private_key) == private_key.kind # "Ed25519"

\* Ed25519 signing: deterministic, and no two (key, data) have the same
\* signature.
Ed25519Sign(private_key, data) == [signer |-> private_key.owner, data |-> data]

\* base64.b64encode(signature).decode('utf-8')
b64encode(bytes) == [encoding |-> "base64", bytes |-> bytes]

\* The wrapper _sign_task builds.
signed_task_wrapper(task, signature_b64) ==
    [task |-> task, signature |-> signature_b64, algorithm |-> "Ed25519"]

\* A signer whose except branch lets the task through without signature.
sign_task_unsigned_on_error(task, private_key) ==
    IF Items(task) = <<>>
    THEN None
    ELSE IF SignRaises(private_key)
    THEN signed_task_wrapper(task, None)
    ELSE signed_task_wrapper(task, b64encode(Ed25519Sign(private_key, json_dumps(task))))

\* _sign_task(task_object), with the module's AGENT_PRIVATE_KEY as second
\* argument: None for an empty task and when signing raises, else the
\* wrapper of the task, its signature and the algorithm.
_sign_task(task, private_key) ==
    IF Items(task) = <<>>
    THEN None
    ELSE IF SignRaises(private_key)
    THEN None
    ELSE signed_task_wrapper(task, b64encode(Ed25519Sign(private_key, json_dumps(task))))

\* ------------------------------------------------------- signing: inputs
\* The strings a drawn task holds as values.
AtomInputs == {Str(<<"BOOK_FLIGHT">>), Str(<<"AF-123">>)}

\* The keys of a drawn task and of a drawn item.
TaskKeys == {"task_name", "item_id", "price"}
ItemKeys == {"id", "type", "price"}

\* The ways to pick n different elements of S, in order.
Injections(n, S) == {f \in [1..n -> S] : \A i, j \in 1..n : i # j => f[i] # f[j]}

\* The keys of an object.
KeysOf(object) == {KeyOf(Items(object)[i]) : i \in 1..Len(Items(object))}

\* The objects that hold one more pair than an object of objects: a key
\* out of keys that it does not hold yet, with a value out of values[key].
Extended(objects, keys, values) ==
    UNION {UNION {{Obj(Append(Items(o), Pair(k, v))) : v \in values[k]} :
                     k \in keys \ KeysOf(o)} : o \in objects}

\* Items as the NLU can return them: objects of n keys, in every
\* insertion order, with strings as values.
RECURSIVE ItemsOfLen(_)
ItemsOfLen(n) ==
    IF n = 0
    THEN {Obj(<<>>)}
    ELSE Extended(ItemsOfLen(n - 1), ItemKeys, [k \in ItemKeys |-> AtomInputs])

ItemInputs == UNION {ItemsOfLen(n) : n \in 0..MaxKeys}

\* Task objects of n keys, in every insertion order: strings under
\* every key, or an item under item_id.
RECURSIVE TasksOfLen(_)
TasksOfLen(n) ==
    IF n = 0
    THEN {Obj(<<>>)}
    ELSE Extended(TasksOfLen(n - 1), TaskKeys,
                  [k \in TaskKeys |-> IF k = "item_id" THEN AtomInputs \cup ItemInputs
                                                        ELSE AtomInputs])

TaskInputs == UNION {TasksOfLen(n) : n \in 0..MaxKeys}

\* The objects Python holds equal to value: the same keys with the same
\* values, inserted in any order, at every depth.
RECURSIVE Reorderings(_)
RECURSIVE ReorderedValues(_)
\* pairs, with every value replaced by one that Python holds equal to it.
ReorderedValues(pairs) ==
    IF pairs = <<>>
    THEN {<<>>}
    ELSE {<<Pair(KeyOf(pairs[1]), v)>> \o rest :
             v \in Reorderings(ValueOf(pairs[1])), rest \in ReorderedValues(Tail(pairs))}

Reorderings(value) ==
    IF ~IsObj(value)
    THEN {value}
    ELSE {Obj([i \in 1..Len(c) |-> c[p[i]]]) :
             p \in Injections(Len(Items(value)), 1..Len(Items(value))),
             c \in ReorderedValues(Items(value))}

\* The values a change of one field of value leads to: a string replaced,
\* a key removed, a key added, at any depth.
RECURSIVE FieldEdits(_)
FieldEdits(value) ==
    IF ~IsObj(value)
    THEN AtomInputs \ {value}
    ELSE LET pairs == Items(value)
             n     == Len(pairs)
         IN  UNION {{Obj([pairs EXCEPT ![i] = Pair(KeyOf(pairs[i]), e)]) :
                        e \in FieldEdits(ValueOf(pairs[i]))} : i \in 1..n}
             \cup {Obj([i \in 1..(n - 1) |-> IF i < r THEN pairs[i] ELSE pairs[i + 1]]) :
                      r \in 1..n}
             \cup {Obj(Append(pairs, Pair(k, a))) :
                      k \in {KeyOrder[i] : i \in 1..Len(KeyOrder)} \ {KeyOf(pairs[j]) : j \in 1..n},
                      a \in AtomInputs}

\* --------------------------------------------------- signing: verification
\* The public half of the key pair of the agent.
AGENT_PUBLIC_KEY == [kind |-> "Ed25519", owner |-> "agent"]

\* Ed25519 verification: the signature is the one the private half of
\* public_key gives for data.
Ed25519Verify(public_key, signature, data) ==
    signature = Ed25519Sign([kind |-> "Ed25519", owner |-> public_key.owner], data)

\* verify(signedTask, publicKey): the canonical bytes of signedTask.task
\* are recomputed and the signature is checked against them with the
\* stated algorithm's public key.
verify(signedTask, public_key) ==
    /\ signedTask.algorithm = "Ed25519"
    /\ signedTask.signature # None
    /\ signedTask.signature.encoding = "base64"
    /\ Ed25519Verify(public_key, signedTask.signature.bytes, json_dumps(signedTask.task))

\* _sign_task was not called yet.
NotCalled == [called |-> FALSE]

\* The signer before any call, with the key the module asks for.
SignerIdle ==
    /\ AGENT_PRIVATE_KEY = [kind |-> "Ed25519", owner |-> "agent"]
    /\ task_object = Obj(<<>>)
    /\ signed_task = NotCalled
    /\ rebuilt = Obj(<<>>)
    /\ signed_again = NotCalled
    /\ received = None
    /\ tampering = "none"

\* ============================================ agent_client.py: agent turn
\* Python truth of a JSON value: None, "" and {} are false.
Truthy(value) == value # Null /\ value[2] # <<>>

\* dict.get(key) on a JSON object: the value, or None.
Get(object, key) ==
    IF key \in KeysOf(object)
    THEN ValueOf(Items(object)[CHOOSE i \in 1..Len(Items(object)) : KeyOf(Items(object)[i]) = key])
    ELSE Null

\* str.upper() on the segments of the item types the NLU is given.
upper(segments) ==
    [i \in 1..Len(segments) |->
        CASE segments[i] = "flight" -> "FLIGHT"
          [] segments[i] = "hotel" -> "HOTEL"
          [] OTHER -> segments[i]]

\* What a handler that raised leaves in place of its result.
Raised(exception) == [raised |-> exception]
HasRaised(result) == result # None /\ "raised" \in DOMAIN result

\* conversation_state as the NLU returns it.  intent is None when the
\* key is absent; the parameters are the strings under their keys, empty
\* when absent.
ConversationState(intent, parameters, item_to_book, is_confirmed) ==
    [intent |-> intent, parameters |-> parameters,
     booking_context |-> [item_to_book |-> item_to_book, is_confirmed |-> is_confirmed]]

\* initialize_agent()
initialize_agent ==
    ConversationState(Some("CLARIFICATION"),
                      [origin |-> <<>>, destination |-> <<>>, departure_date |-> <<>>,
                       location |-> <<>>, check_in_date |-> <<>>, check_out_date |-> <<>>],
                      Null, FALSE)

\* The empty state {}.
EmptyState == <<>>

IntentInputs ==
    {None, Some("SEARCH_FLIGHT"), Some("SEARCH_HOTEL"), Some("BOOK_ITEM"),
     Some("CLARIFICATION"), Some("SMALL_TALK")}

ParametersInputs ==
    {initialize_agent.parameters,
     [initialize_agent.parameters EXCEPT !.origin = <<"PAR">>, !.destination = <<"NYC">>,
                                         !.departure_date = <<"2025-12-01">>],
     [initialize_agent.parameters EXCEPT !.origin = <<"PAR">>, !.destination = <<"NYC">>],
     [initialize_agent.parameters EXCEPT !.location = <<"NYC">>, !.check_in_date = <<"2025-12-01">>,
                                         !.check_out_date = <<"2025-12-05">>],
     [initialize_agent.parameters EXCEPT !.location = <<"NYC">>, !.check_in_date = <<"2025-12-01">>]}

\* item_to_book: None, {}, a flight, a hotel, an item without type.
ItemToBookInputs ==
    {Null, Obj(<<>>),
     Obj(<<Pair("type", Str(<<"flight">>)), Pair("id", Str(<<"AF-123">>)), Pair("price", Num(480))>>),
     Obj(<<Pair("price", Num(120)), Pair("id", Str(<<"H-9">>)), Pair("type", Str(<<"hotel">>))>>),
     Obj(<<Pair("id", Str(<<"AF-123">>)), Pair("price", Num(480))>>)}

\* What the language model can answer nlu_phase_llm with, once parsed.
ConversationStateInputs ==
    {EmptyState} \cup
    {ConversationState(intent, parameters, item_to_book, is_confirmed) :
        intent \in IntentInputs, parameters \in ParametersInputs,
        item_to_book \in ItemToBookInputs, is_confirmed \in BOOLEAN}

\* booking_context.item_to_book of a state, None for {}.
item_to_book_of(state) ==
    IF state = EmptyState THEN Null ELSE state.booking_context.item_to_book

\* nlu_phase_llm(user_prompt, previous_state) for what the language model
\* answered: previous_state when the call raised or the answer was no
\* JSON, else the answer, with the item_to_book of previous_state put
\* back when the answer dropped it and is no BOOK_ITEM.
nlu_phase_llm(llm, previous_state) ==
    IF HasRaised(llm)
    THEN previous_state
    ELSE IF /\ Truthy(item_to_book_of(previous_state))
            /\ ~Truthy(item_to_book_of(llm))
            /\ (llm = EmptyState \/ llm.intent # Some("BOOK_ITEM"))
    THEN IF llm = EmptyState
         THEN ConversationState(None, initialize_agent.parameters,
                                item_to_book_of(previous_state), FALSE)
         ELSE [llm EXCEPT !.booking_context.item_to_book = item_to_book_of(previous_state)]
    ELSE llm

\* What generation_phase_llm can return: the text of the model, or its
\* own apology.
ResponseTextInputs ==
    {<<"generated text">>,
     <<"I'm sorry, an internal error occurred while generating my response.">>}

\* The inner task of core_processing_phase for a SEARCH_FLIGHT intent.
search_flight_task(params) ==
    Obj(<<Pair("task_name", Str(<<"GOOGLE_SEARCH_FLIGHT">>)),
          Pair("query", Str(<<"price flight ">> \o params.origin \o <<" to ">>
                              \o params.destination \o <<" on ">> \o params.departure_date))>>)

\* The inner task of core_processing_phase for a SEARCH_HOTEL intent.
search_hotel_task(params) ==
    Obj(<<Pair("task_name", Str(<<"GOOGLE_SEARCH_HOTEL">>)),
          Pair("query", Str(<<"price hotel ">> \o params.location \o <<" from ">>
                              \o params.check_in_date \o <<" to ">> \o params.check_out_date))>>)

\* The inner task of core_processing_phase for a confirmed BOOK_ITEM.
book_item_task(item) ==
    Obj(<<Pair("task_name", Str(<<"BOOK_">> \o upper(Get(item, "type")[2]))),
          Pair("item_id", Get(item, "id")),
          Pair("price", Get(item, "price"))>>)

\* A test that does not look at the confirmation.
BookingReadyUnconfirmed(item, is_confirmed) == Truthy(item)

\* `if item and is_confirmed`
BookingReady(item, is_confirmed) == Truthy(item) /\ is_confirmed

\* core_processing_phase(conversation_state): None when no task is to be
\* performed, else what _sign_task returns for the task.
\* item.get('type').upper() raises AttributeError unless the type is a
\* string.
core_processing_phase(conversation_state, private_key) ==
    IF conversation_state = EmptyState \/ conversation_state.intent = None
    THEN None
    ELSE LET intent == conversation_state.intent[1]
             params == conversation_state.parameters
             item   == conversation_state.booking_context.item_to_book
         IN  CASE intent = "SEARCH_FLIGHT" ->
                    IF params.origin = <<>> \/ params.destination = <<>>
                          \/ params.departure_date = <<>>
                    THEN None
                    ELSE _sign_task(search_flight_task(params), private_key)
               [] intent = "SEARCH_HOTEL" ->
                    IF params.location = <<>> \/ params.check_in_date = <<>>
                          \/ params.check_out_date = <<>>
                    THEN None
                    ELSE _sign_task(search_hotel_task(params), private_key)
               [] intent = "BOOK_ITEM" ->
                    IF BookingReady(item, conversation_state.booking_context.is_confirmed)
                    THEN IF Get(item, "type")[1] # "str"
                         THEN Raised("AttributeError")
                         ELSE _sign_task(book_item_task(item), private_key)
                    ELSE None
               [] OTHER -> None

\* run_agent_turn(user_input, current_state), given what the two calls of
\* the language model return: (agent_response_text, new_state,
\* signed_task_wrapper).
run_agent_turn(conversation_state, response_text, current_state, private_key) ==
    IF conversation_state = EmptyState
    THEN [response |-> <<"I'm sorry, I could not process that request.">>,
          new_state |-> current_state, signed_task |-> None]
    ELSE LET signed == core_processing_phase(conversation_state, private_key)
         IN  IF HasRaised(signed)
             THEN signed
             ELSE IF signed # None
             THEN [response |-> None, new_state |-> conversation_state, signed_task |-> signed]
             ELSE [response |-> response_text, new_state |-> conversation_state,
                   signed_task |-> None]

\* =========================================================== orchestrator.py
AGENT_API_KEY == "agent-api-key"

\* The headers and the JSON body of a POST /chat_turn.
ChatRequest(api_key, authorization, user_input, conversation_state) ==
    [X_ATP_Key |-> api_key, Authorization |-> authorization,
     user_input |-> user_input, conversation_state |-> conversation_state]

\* The X-ATP-Key header: absent, empty, wrong, right.
AgentApiKeyInputs == {None, Some(""), Some("wrong-key"), Some(AGENT_API_KEY)}

\* The Authorization header: absent, empty, or the token of the end user.
AuthorizationInputs == {None, Some(""), Some("Bearer user-token")}

\* A test that takes an empty header for a key.
HeaderAbsent(header) == header = None

\* `not api_key`, `not user_auth_token`, `not user_input` on what
\* headers.get and data.get return: None and "" are false.
HeaderMissing(header) == header = None \/ header = Some("")

\* A decorator that calls the handler whatever the key.
require_no_key(request, f) ==
    [status |-> f.status, body |-> f.body, ran |-> TRUE]

\* require_api_key(f): the response of the decorated handler, f being
\* the response of the wrapped one, and whether the wrapped one ran.
require_api_key(request, f) ==
    IF HeaderMissing(request.X_ATP_Key)
    THEN [status |-> 401, body |-> [error |-> "Unauthorized. 'X-ATP-Key' header is missing."],
          ran |-> FALSE]
    ELSE IF request.X_ATP_Key[1] # AGENT_API_KEY
    THEN [status |-> 403, body |-> [error |-> "Forbidden. Invalid API Key."], ran |-> FALSE]
    ELSE [status |-> f.status, body |-> f.body, ran |-> TRUE]

\* flask.jsonify writes the keys of every object in sorted order.
RECURSIVE jsonify(_)
jsonify(value) ==
    IF IsObj(value)
    THEN Obj([i \in 1..Len(Items(value)) |->
                 Pair(KeyOf(sorted_items(Items(value))[i]),
                      jsonify(ValueOf(sorted_items(Items(value))[i])))])
    ELSE value

\* A signed task as jsonify writes it into a response.
jsonify_signed(signed) ==
    IF signed = None THEN None ELSE [signed EXCEPT !.task = jsonify(@)]

\* A response that carries the user's token inside the task.
task_response_merged(new_state, signed, user_auth_token) ==
    [response_text |-> None, new_state |-> new_state,
     signed_task |->
        IF user_auth_token = None
        THEN jsonify_signed(signed)
        ELSE jsonify_signed([signed EXCEPT !.task =
                 Obj(Append(Items(@), Pair("auth_token", Str(user_auth_token))))]),
     user_auth_token |-> None]

\* The response of /chat_turn that carries a task: the signed task as
\* the agent returned it, and the user's token next to it.
task_response(new_state, signed, user_auth_token) ==
    [response_text |-> None, new_state |-> new_state,
     signed_task |-> jsonify_signed(signed), user_auth_token |-> user_auth_token]

\* signed_task['task']['task_name'].startswith('BOOK_')
IsBookingTask(signed) == Get(signed.task, "task_name")[2][1] = "BOOK_"

\* The body of handle_chat_turn, given what run_agent_turn returns when
\* it is called.
chat_turn(request, agent_turn) ==
    IF HeaderMissing(request.user_input)
    THEN [status |-> 400, body |-> [error |-> "user_input missing"]]
    ELSE IF HasRaised(agent_turn)
    THEN [status |-> 500, body |-> [error |-> "Internal Server Error"]]
    ELSE IF agent_turn.signed_task # None
    THEN IF IsBookingTask(agent_turn.signed_task)
         THEN IF HeaderMissing(request.Authorization)
              THEN [status |-> 401,
                    body |-> [response_text |-> <<"This action (booking) requires user authentication. Please provide an 'Authorization' header.">>,
                              new_state |-> agent_turn.new_state, task |-> None]]
              ELSE [status |-> 200,
                    body |-> task_response(agent_turn.new_state, agent_turn.signed_task,
                                           request.Authorization)]
         ELSE [status |-> 200,
               body |-> task_response(agent_turn.new_state, agent_turn.signed_task, None)]
    ELSE [status |-> 200,
          body |-> [response_text |-> agent_turn.response, new_state |-> agent_turn.new_state,
                    signed_task |-> None, user_auth_token |-> None]]

\* POST /chat_turn: handle_chat_turn as the route calls it.
handle_chat_turn(request, agent_turn) ==
    require_api_key(request, chat_turn(request, agent_turn))

\* Whether the handler gets as far as calling agent.run_agent_turn.
CallsAgent(request) ==
    /\ request.X_ATP_Key = Some(AGENT_API_KEY)
    /\ ~HeaderMissing(request.user_input)

Chat(request, nlu, status, body, ran) ==
    [request |-> request, nlu |-> nlu, status |-> status, body |-> body, ran |-> ran]

NoChat == Chat(<<>>, <<>>, 0, <<>>, FALSE)

\* AGENT_MANIFEST_CONTENT, the content of agent-manifest.json.
AGENT_MANIFEST_CONTENT == [manifest |-> "agent-manifest.json"]

\* GET /manifest: get_manifest as the route calls it.
get_manifest(request) ==
    require_api_key(request, [status |-> 200, body |-> AGENT_MANIFEST_CONTENT])

\* A JSON array.
List(elements) == <<"list", elements>>

\* conversation_state["booking_context"] = {"item_to_book": ...,
\* "is_confirmed": False}
set_booking_context(conversation_state, item_to_book) ==
    IF conversation_state = EmptyState
    THEN ConversationState(None, initialize_agent.parameters, item_to_book, FALSE)
    ELSE [conversation_state EXCEPT
            !.booking_context = [item_to_book |-> item_to_book, is_confirmed |-> FALSE]]

\* The BOOKING_CONFIRMED branch of _update_state_from_results.
booking_confirmed(conversation_state) == set_booking_context(conversation_state, Null)

\* The FLIGHT and HOTEL branches of _update_state_from_results;
\* results[0] raises IndexError on an empty list.
search_found(conversation_state, task_results, type) ==
    LET results == IF "results" \in KeysOf(task_results)
                   THEN Get(task_results, "results")
                   ELSE List(<<Obj(<<>>)>>)
    IN  IF results[2] = <<>>
        THEN Raised("IndexError")
        ELSE LET best_result == results[2][1]
             IN  IF Truthy(Get(best_result, "item_id"))
                 THEN set_booking_context(conversation_state,
                          Obj(<<Pair("type", Str(<<type>>)),
                                Pair("id", Get(best_result, "item_id")),
                                Pair("price", Get(best_result, "price"))>>))
                 ELSE conversation_state

_update_state_from_results(conversation_state, task_results) ==
    IF Truthy(task_results) /\ "error" \notin KeysOf(task_results)
    THEN IF Get(task_results, "search_type") = Str(<<"FLIGHT">>)
         THEN search_found(conversation_state, task_results, "flight")
         ELSE IF Get(task_results, "search_type") = Str(<<"HOTEL">>)
         THEN search_found(conversation_state, task_results, "hotel")
         ELSE IF Get(task_results, "status") = Str(<<"BOOKING_CONFIRMED">>)
         THEN booking_confirmed(conversation_state)
         ELSE conversation_state
    ELSE conversation_state

\* The headers and the JSON body of a POST /generate_response; a key the
\* body leaves out is None.
GenerateRequest(api_key, task_results, user_prompt, conversation_state) ==
    [X_ATP_Key |-> api_key, task_results |-> task_results, user_prompt |-> user_prompt,
     conversation_state |-> conversation_state]

\* str.upper() on the segments of a prompt.
upper_prompt(segments) ==
    [i \in 1..Len(segments) |->
        CASE segments[i] = "simulate no results" -> "SIMULATE NO RESULTS"
          [] segments[i] = "Simulate Service Error" -> "SIMULATE SERVICE ERROR"
          [] OTHER -> segments[i]]

\* The task_results the handler goes on with: the error it injects for
\* a prompt that asks for one, else the ones of the request.
simulated(task_results, user_prompt) ==
    IF InList("SIMULATE NO RESULTS", upper_prompt(user_prompt))
    THEN Obj(<<Pair("error", Str(<<"NO_RESULTS">>))>>)
    ELSE IF InList("SIMULATE SERVICE ERROR", upper_prompt(user_prompt))
    THEN Obj(<<Pair("error", Str(<<"SERVICE_ERROR">>)),
               Pair("details", Str(<<"External API is down (503).">>))>>)
    ELSE task_results

\* The body of handle_generate_response, given what generation_phase_llm
\* returns when it is called.
generate_response(request, final_response) ==
    LET task_results == IF request.task_results = None THEN Obj(<<>>)
                                                       ELSE request.task_results[1]
    IN  IF \/ task_results = Null
           \/ request.user_prompt = None \/ request.user_prompt = Some(<<>>)
           \/ request.conversation_state = None
        THEN [status |-> 400,
              body |-> [error |-> "Missing data (task_results, user_prompt, or conversation_state)"]]
        ELSE LET conversation_state ==
                     _update_state_from_results(request.conversation_state[1],
                         simulated(task_results, request.user_prompt[1]))
             IN  IF HasRaised(conversation_state)
                 THEN [status |-> 500, body |-> [error |-> "Internal Server Error"]]
                 ELSE [status |-> 200,
                       body |-> [response_text |-> final_response,
                                 new_state |-> conversation_state]]

\* POST /generate_response: handle_generate_response as the route calls it.
handle_generate_response(request, final_response) ==
    require_api_key(request, generate_response(request, final_response))

\* task_results of a request: left out, null, empty, an error, a flight
\* or hotel search with a result, with a result without item_id and
\* without results, a confirmed booking, another status.
TaskResultsInputs ==
    {None, Some(Null), Some(Obj(<<>>)),
     Some(Obj(<<Pair("error", Str(<<"NO_RESULTS">>))>>)),
     Some(Obj(<<Pair("search_type", Str(<<"FLIGHT">>)),
                Pair("results", List(<<Obj(<<Pair("item_id", Str(<<"AF-123">>)),
                                             Pair("price", Num(480))>>)>>))>>)),
     Some(Obj(<<Pair("search_type", Str(<<"HOTEL">>)),
                Pair("results", List(<<Obj(<<Pair("item_id", Str(<<"H-9">>)),
                                             Pair("price", Num(120))>>)>>))>>)),
     Some(Obj(<<Pair("search_type", Str(<<"FLIGHT">>)),
                Pair("results", List(<<Obj(<<Pair("price", Num(480))>>)>>))>>)),
     Some(Obj(<<Pair("search_type", Str(<<"HOTEL">>)), Pair("results", List(<<>>))>>)),
     Some(Obj(<<Pair("search_type", Str(<<"FLIGHT">>))>>)),
     Some(Obj(<<Pair("status", Str(<<"BOOKING_CONFIRMED">>))>>)),
     Some(Obj(<<Pair("status", Str(<<"BOOKING_FAILED">>))>>))}

\* user_prompt of a request: left out, empty, a plain one and the two
\* that ask for a simulated error.
UserPromptInputs ==
    {None, Some(<<>>), Some(<<"book it">>), Some(<<"please ", "simulate no results">>),
     Some(<<"Simulate Service Error">>)}

\* conversation_state of a /generate_response request: left out, {}, the
\* initial one, and one with a confirmed flight to book.
GenerateStateInputs ==
    {None, Some(EmptyState), Some(initialize_agent),
     Some(ConversationState(Some("BOOK_ITEM"), initialize_agent.parameters,
              Obj(<<Pair("type", Str(<<"flight">>)), Pair("id", Str(<<"AF-123">>)),
                    Pair("price", Num(480))>>), TRUE))}

Reply(endpoint, request, status, body, ran) ==
    [endpoint |-> endpoint, request |-> request, status |-> status, body |-> body,
     ran |-> ran]

NoReply == Reply("", <<>>, 0, <<>>, FALSE)

\* The orchestrator before any request.
OrchestratorIdle ==
    /\ chat = NoChat
    /\ turn = NotCalled
    /\ reply = NoReply

\* =================================================== the client orchestrator
\* The repository holds no client of the negotiate/commit exchange; the
\* definitions of this section follow section 4.3 of the specification.

\* The prices a supplier's Offer can carry.
OfferPrices == {OUR_PRICE, OUR_PRICE_AF, 490}

\* How a launched negotiation settles without an Offer.
NegotiationFailures == {"connection failure", "timeout", "non-2xx status"}

Pending == [kind |-> "pending"]
Offered(offer) == [kind |-> "offer", offer |-> offer]
Rejected == [kind |-> "rejection", reasonCode |-> "PRICE_UNMET"]
Failed(error) == [kind |-> "failed", error |-> error]

\* The Offer a supplier issues for a transaction at a price.
SupplierOffer(supplier, transactionId, price) ==
    [offerId |-> <<"offer", supplier.supplierId>> \o transactionId,
     price |-> price, currency |-> OUR_CURRENCY,
     commitEndpoint |-> <<supplier.baseUrl, "/commit">>]

\* The answers a negotiate call can settle with.
NegotiationOutcomes(supplier, transactionId) ==
    {Offered(SupplierOffer(supplier, transactionId, price)) : price \in OfferPrices}
        \cup {Rejected} \cup {Failed(error) : error \in NegotiationFailures}

\* Step 2 of discoverAndNegotiate: one call per returned SupplierInfo,
\* each with a transactionId minted for it.
launch(suppliers) ==
    [i \in 1..Len(suppliers) |->
        [supplier |-> suppliers[i], transactionId |-> <<"tx", ToString(i)>>,
         result |-> Pending]]

\* A round that ends as soon as one of its calls failed.
RoundSettledOrFailed(calls) ==
    \/ \A i \in 1..Len(calls) : calls[i].result # Pending
    \/ \E i \in 1..Len(calls) : calls[i].result.kind = "failed"

\* Step 3: every launched negotiation returned an Offer, returned a
\* Rejection, or failed.
RoundSettled(calls) == \A i \in 1..Len(calls) : calls[i].result # Pending

\* Step 4: the Offers obtained, in the order of the suppliers, each
\* tagged with its supplier and the transactionId of its negotiation.
RECURSIVE collect(_)
collect(calls) ==
    IF calls = <<>>
    THEN <<>>
    ELSE LET call == Head(calls)
         IN  (IF call.result.kind = "offer"
              THEN << [offer |-> call.result.offer,
                       supplier |-> [name |-> call.supplier.name,
                                     baseUrl |-> call.supplier.baseUrl],
                       transactionId |-> call.transactionId] >>
              ELSE <<>>) \o collect(Tail(calls))

\* A selection in which the last of the cheapest offers wins.
LastCheapest(list) ==
    CHOOSE i \in 1..Len(list) :
        /\ \A j \in 1..Len(list) : list[i].offer.price <= list[j].offer.price
        /\ \A j \in (i + 1)..Len(list) : list[j].offer.price > list[i].offer.price

\* The position a stable sort by price puts first.
FirstCheapest(list) ==
    CHOOSE i \in 1..Len(list) :
        /\ \A j \in 1..Len(list) : list[i].offer.price <= list[j].offer.price
        /\ \A j \in 1..(i - 1) : list[j].offer.price > list[i].offer.price

selectBest(list) ==
    IF list = <<>> THEN Raised("NoOffersError") ELSE list[FirstCheapest(list)]

\* A commit request that carries the transactionId minted first.
commit_request_base(selected) ==
    [to |-> selected.offer.commitEndpoint, transactionId |-> <<"tx", "1">>,
     offerId |-> selected.offer.offerId]

\* The one request of commit(Offer, transactionId).
commit_request(selected) ==
    [to |-> selected.offer.commitEndpoint, transactionId |-> selected.transactionId,
     offerId |-> selected.offer.offerId]

\* The answers the winning supplier's commit can give.
CommitOutcomes(request) ==
    {[transactionId |-> request.transactionId, offerId |-> request.offerId,
      status |-> "CONFIRMED"],
     Raised("NotFoundError"), Raised("ConnectionError")}

\* The client before a shopping attempt.
ClientIdle ==
    /\ discovered = None
    /\ negotiations = <<>>
    /\ offers = None
    /\ selection = None
    /\ commits = <<>>
    /\ report = None

\* ----------------------------------------------------------------- Init
InitSuppliers ==
    /\ db_valid_offers = [s \in Suppliers |-> EmptyDict]
    /\ inflight = [s \in Suppliers |-> {}]
    /\ started = [s \in Suppliers |-> {}]
    /\ uuid_count = 0
    /\ nreq = 0
    /\ resp = NoResponse
    /\ now = 0
    /\ issued = [s \in Suppliers |-> {}]
    /\ committed = [s \in Suppliers |-> {}]
    /\ spent = [s \in Suppliers |-> {}]
    /\ unclaimed = [s \in Suppliers |-> {}]
    /\ confirmations = [s \in Suppliers |-> {}]

Init == InitSuppliers /\ DirectoryIdle /\ SignerIdle /\ OrchestratorIdle /\ ClientIdle

\* -------------------------------------------------------------- actions
\* The offerIds a negotiate response announces.
OfferIdsOf(body) == {body.offers[i].offerId : i \in 1..Len(body.offers)}

\* The bookkeeping of a negotiate answered by supplier s with this body.
NegotiateRecord(s, body) ==
    /\ issued' = [issued EXCEPT ![s] = @ \cup
                      {[offerId |-> o, transactionId |-> body.transactionId] : o \in OfferIdsOf(body)}]
    /\ unclaimed' = [unclaimed EXCEPT ![s] = @ \cup OfferIdsOf(body)]
    /\ spent' = [spent EXCEPT ![s] = {}]
    /\ UNCHANGED <<committed, confirmations>>

\* POST /atp/v1/negotiate at agent_supplier.py with this request,
\* received and handled.
HandleNegotiateAF(request) ==
    LET out == negotiate_transaction(request, db_valid_offers["AF"])
    IN  /\ nreq < MaxRequests
        /\ EventLoopFree("AF")
        /\ nreq' = nreq + 1
        /\ db_valid_offers' = [db_valid_offers EXCEPT !["AF"] = out.db]
        /\ resp' = Response(nreq + 1, "AF", "negotiate", 200, request, out.body)
        /\ NegotiateRecord("AF", out.body)
        /\ UNCHANGED <<inflight, started, uuid_count, now, outsideSuppliers>>

NegotiateAF ==
    \E transactionId \in TransactionIds, maxPrice \in MaxPriceInputs("AF") :
        HandleNegotiateAF(IntentRequest(transactionId, maxPrice))

\* A negotiate of agent_supplier_2.py that saves its offer in a ledger
\* both suppliers use.
HandleNegotiateB_SharedLedger(request) ==
    LET out == negotiate(request, db_valid_offers["B"], uuid_count)
    IN  /\ nreq < MaxRequests
        /\ EventLoopFree("B")
        /\ nreq' = nreq + 1
        /\ db_valid_offers' =
               [s \in Suppliers |->
                   [k \in DictKeys(db_valid_offers[s]) \cup DictKeys(out.db) |->
                       IF k \in DictKeys(out.db) THEN out.db[k] ELSE db_valid_offers[s][k]]]
        /\ uuid_count' = out.uuid_count
        /\ resp' = Response(nreq + 1, "B", "negotiate", 200, request, out.body)
        /\ NegotiateRecord("B", out.body)
        /\ UNCHANGED <<inflight, started, now, outsideSuppliers>>

\* POST /atp/v1/negotiate at agent_supplier_2.py with this request,
\* received and handled.
HandleNegotiateB(request) ==
    LET out == negotiate(request, db_valid_offers["B"], uuid_count)
    IN  /\ nreq < MaxRequests
        /\ EventLoopFree("B")
        /\ nreq' = nreq + 1
        /\ db_valid_offers' = [db_valid_offers EXCEPT !["B"] = out.db]
        /\ uuid_count' = out.uuid_count
        /\ resp' = Response(nreq + 1, "B", "negotiate", 200, request, out.body)
        /\ NegotiateRecord("B", out.body)
        /\ UNCHANGED <<inflight, started, now, outsideSuppliers>>

NegotiateB ==
    \E transactionId \in TransactionIds, maxPrice \in MaxPriceInputs("B") :
        HandleNegotiateB(IntentRequest(transactionId, maxPrice))

\* A client sends POST /atp/v1/commit to supplier s; the request is in
\* flight until the supplier's event loop starts its handler.
SendCommit(s) ==
    \E transactionId \in TransactionIds, offerId \in CommitOfferIds :
        /\ nreq < MaxRequests
        /\ Cardinality(inflight[s]) < MaxInFlight
        /\ nreq' = nreq + 1
        /\ inflight' = [inflight EXCEPT ![s] = @ \cup {CommitRequest(nreq + 1, transactionId, offerId)}]
        /\ UNCHANGED <<db_valid_offers, started, uuid_count, resp, now,
                       issued, committed, spent, unclaimed, confirmations, outsideSuppliers>>

\* A membership test that also wants the transactionId of the negotiate
\* that issued the offer.
OfferIdInLedgerForTransaction(s, request) ==
    /\ DictContains(db_valid_offers[s], request.offerId)
    /\ [offerId |-> request.offerId, transactionId |-> request.transactionId] \in issued[s]

\* A membership test that finds every offerId.
OfferIdAlwaysInLedger(s, request) == TRUE

\* The membership test of the commit handlers:
\* `request.offerId not in db_valid_offers` (AF), `request.offerId in
\* db_valid_offers` (B).
OfferIdInLedger(s, request) == DictContains(db_valid_offers[s], request.offerId)

\* First step of a commit handler: the membership test.  An absent offerId
\* raises HTTPException(404) and ends the handler; a present one lets the
\* handler go on to the removal.
CommitCheck(s) ==
    \E request \in inflight[s] :
        /\ EventLoopFree(s)
        /\ inflight' = [inflight EXCEPT ![s] = @ \ {request}]
        /\ IF OfferIdInLedger(s, request)
           THEN /\ started' = [started EXCEPT ![s] = @ \cup {request}]
                /\ UNCHANGED <<resp, unclaimed>>
           ELSE /\ resp' = Response(request.id, s, "commit", 404, request, NotFound(request))
                /\ unclaimed' = [unclaimed EXCEPT ![s] = @ \ {request.offerId}]
                /\ UNCHANGED started
        /\ UNCHANGED <<db_valid_offers, uuid_count, nreq, now, issued, committed, spent,
                       confirmations, outsideSuppliers>>

\* Second step of a commit handler: db_valid_offers.pop(request.offerId)
\* and the CONFIRMED response.  pop raises KeyError when the key is gone,
\* which the server answers with status 500.
CommitPop(s) ==
    \E request \in started[s] :
        /\ started' = [started EXCEPT ![s] = @ \ {request}]
        /\ unclaimed' = [unclaimed EXCEPT ![s] = @ \ {request.offerId}]
        /\ IF DictContains(db_valid_offers[s], request.offerId)
           THEN /\ db_valid_offers' = [db_valid_offers EXCEPT ![s] = DictPop(@, request.offerId)]
                /\ committed' = [committed EXCEPT ![s] = @ \cup {request.offerId}]
                /\ spent' = [spent EXCEPT ![s] = @ \cup {request.offerId}]
                /\ IF s = "AF"
                   THEN /\ resp' = Response(request.id, s, "commit", 200, request,
                                            commit_transaction_response(request))
                        /\ UNCHANGED uuid_count
                   ELSE /\ resp' = Response(request.id, s, "commit", 200, request,
                                            commit_response(request, uuid_count))
                        /\ uuid_count' = uuid_count + 1
                /\ confirmations' = [confirmations EXCEPT ![s] = @ \cup
                       {[transactionId  |-> request.transactionId,
                         confirmationId |-> resp'.body.confirmationId]}]
           ELSE /\ resp' = Response(request.id, s, "commit", 500, request, InternalServerError)
                /\ UNCHANGED <<db_valid_offers, committed, spent, uuid_count, confirmations>>
        /\ UNCHANGED <<inflight, nreq, now, issued, outsideSuppliers>>

\* POST /atp/v1/commit at agent_supplier.py.
SendCommitAF == SendCommit("AF")
commit_transaction_check == CommitCheck("AF")
commit_transaction_pop == CommitPop("AF")

\* POST /atp/v1/commit at agent_supplier_2.py.
SendCommitB == SendCommit("B")
commit_check == CommitCheck("B")
commit_pop == CommitPop("B")

\* Time passes.
Tick ==
    /\ now < MaxClock
    /\ now' = now + 1
    /\ UNCHANGED <<db_valid_offers, inflight, started, uuid_count, nreq, resp,
                   issued, committed, spent, unclaimed, confirmations, outsideSuppliers>>

Next ==
    \/ NegotiateAF
    \/ NegotiateB
    \/ SendCommitAF
    \/ commit_transaction_check
    \/ commit_transaction_pop
    \/ SendCommitB
    \/ commit_check
    \/ commit_pop

Spec == Init /\ [][Next]_vars

\* The suppliers with the clock running.
NextTime == Next \/ Tick

SpecTime == Init /\ [][NextTime]_vars

\* The suppliers after each of them has answered one negotiate without
\* budget per transactionId ("tx-1" first, then "tx-2"): the state the
\* handlers leave, with the requests counted from there.
StockedAF ==
    negotiate_transaction(IntentRequest(<<"tx", "2">>, None),
        negotiate_transaction(IntentRequest(<<"tx", "1">>, None), EmptyDict).db)

StockedB ==
    negotiate(IntentRequest(<<"tx", "2">>, None),
        negotiate(IntentRequest(<<"tx", "1">>, None), EmptyDict, 0).db, 2)

StockedIssued(s) ==
    IF s = "AF"
    THEN {[offerId |-> OUR_OFFER_ID(t), transactionId |-> t] : t \in TransactionIds}
    ELSE {[offerId |-> <<"offer", "B", uuid4(1)>>, transactionId |-> <<"tx", "1">>],
          [offerId |-> <<"offer", "B", uuid4(3)>>, transactionId |-> <<"tx", "2">>]}

InitStocked ==
    /\ db_valid_offers = [s \in Suppliers |-> IF s = "AF" THEN StockedAF.db ELSE StockedB.db]
    /\ inflight = [s \in Suppliers |-> {}]
    /\ started = [s \in Suppliers |-> {}]
    /\ uuid_count = StockedB.uuid_count
    /\ nreq = 0
    /\ resp = NoResponse
    /\ now = 0
    /\ issued = [s \in Suppliers |-> StockedIssued(s)]
    /\ committed = [s \in Suppliers |-> {}]
    /\ spent = [s \in Suppliers |-> {}]
    /\ unclaimed = [s \in Suppliers |-> {e.offerId : e \in StockedIssued(s)}]
    /\ confirmations = [s \in Suppliers |-> {}]
    /\ DirectoryIdle
    /\ SignerIdle
    /\ OrchestratorIdle
    /\ ClientIdle

SpecStocked == InitStocked /\ [][Next]_vars

\* The negotiate endpoints alone, sent any valid IntentRequest.
NegotiateAnyAF == \E request \in IntentRequestInputs("AF") : HandleNegotiateAF(request)

NegotiateAnyB == \E request \in IntentRequestInputs("B") : HandleNegotiateB(request)

NextIntents ==
    \/ NegotiateAnyAF
    \/ NegotiateAnyB

SpecIntents == Init /\ [][NextIntents]_vars

\* ---------------------------------------------------------- the directory
\* GET /discover, received and handled.
Discover ==
    \E service_type \in ServiceTypes, requireVerified \in RequireVerifiedInputs,
       api_key \in ApiKeyInputs, auto_error \in AutoErrorStatus :
        LET request == DiscoverRequest(service_type, requireVerified, api_key)
            out     == discover(request, REGISTERED_SUPPLIERS, auto_error)
        IN  /\ discovery' = Discovery(request, out.status, out.body)
            /\ looked_up' = out.looked_up
            /\ repeated' = (request = discovery.request)
            /\ UNCHANGED <<REGISTERED_SUPPLIERS, outsideDirectory>>

\* The directory started with any registry.
InitDirectory ==
    /\ InitSuppliers
    /\ REGISTERED_SUPPLIERS \in RegistryInputs
    /\ discovery = NoDiscovery
    /\ looked_up = FALSE
    /\ repeated = FALSE
    /\ SignerIdle
    /\ OrchestratorIdle
    /\ ClientIdle

NextDirectory == Discover

SpecDirectory == InitDirectory /\ [][NextDirectory]_vars

\* ------------------------------------------------------------ the signer
\* A caller signs the task object it built.
SignTask ==
    /\ signed_task = NotCalled
    /\ signed_task' = _sign_task(task_object, AGENT_PRIVATE_KEY)
    /\ UNCHANGED <<AGENT_PRIVATE_KEY, task_object, rebuilt, signed_again, received, tampering,
                   outsideSigner>>

\* A caller builds the same object again, in any insertion order, and
\* signs it.
SignRebuilt ==
    \E again \in Reorderings(task_object) :
        /\ signed_task # NotCalled
        /\ signed_again = NotCalled
        /\ rebuilt' = again
        /\ signed_again' = _sign_task(again, AGENT_PRIVATE_KEY)
        /\ UNCHANGED <<AGENT_PRIVATE_KEY, task_object, signed_task, received, tampering,
                       outsideSigner>>

\* The signer with any key and any task object to sign.
InitSigner ==
    /\ InitSuppliers
    /\ DirectoryIdle
    /\ AGENT_PRIVATE_KEY \in PrivateKeyInputs
    /\ task_object \in TaskInputs
    /\ signed_task = NotCalled
    /\ rebuilt = task_object
    /\ signed_again = NotCalled
    /\ received = None
    /\ tampering = "none"
    /\ OrchestratorIdle
    /\ ClientIdle

NextSigner ==
    \/ SignTask
    \/ SignRebuilt

SpecSigner == InitSigner /\ [][NextSigner]_vars

\* ---------------------------------------------------------- the verifier
\* signed_task is a wrapper, and it was not sent yet.
Sendable == signed_task # NotCalled /\ signed_task # None /\ received = None

\* The signed task reaches the verifying party as it was signed.
Deliver ==
    /\ Sendable
    /\ received' = signed_task
    /\ tampering' = "none"
    /\ UNCHANGED <<AGENT_PRIVATE_KEY, task_object, signed_task, rebuilt, signed_again,
                   outsideSigner>>

\* It reaches the verifying party with one field of task changed.
TamperTask ==
    /\ Sendable
    /\ \E edited \in FieldEdits(signed_task.task) :
          /\ received' = [signed_task EXCEPT !.task = edited]
          /\ tampering' = "task"
          /\ UNCHANGED <<AGENT_PRIVATE_KEY, task_object, signed_task, rebuilt, signed_again,
                         outsideSigner>>

\* The signatures a change of the bytes of signature can lead to: the
\* ones of another signer, and the agent's ones of other data.
OtherSignatures(signature, task) ==
    ({b64encode(Ed25519Sign([kind |-> "Ed25519", owner |-> "other"], json_dumps(task)))}
        \cup {b64encode(Ed25519Sign(AGENT_PRIVATE_KEY, json_dumps(e))) : e \in FieldEdits(task)})
    \ {signature}

\* It reaches the verifying party with other bytes as signature.
TamperSignature ==
    /\ Sendable
    /\ \E signature \in OtherSignatures(signed_task.signature, signed_task.task) :
          /\ received' = [signed_task EXCEPT !.signature = signature]
          /\ tampering' = "signature"
          /\ UNCHANGED <<AGENT_PRIVATE_KEY, task_object, signed_task, rebuilt, signed_again,
                         outsideSigner>>

\* It reaches the verifying party with another algorithm identifier.
TamperAlgorithm ==
    /\ Sendable
    /\ \E algorithm \in {"Ed448", "none"} :
          /\ received' = [signed_task EXCEPT !.algorithm = algorithm]
          /\ tampering' = "algorithm"
          /\ UNCHANGED <<AGENT_PRIVATE_KEY, task_object, signed_task, rebuilt, signed_again,
                         outsideSigner>>

NextVerifier ==
    \/ SignTask
    \/ Deliver
    \/ TamperTask
    \/ TamperSignature
    \/ TamperAlgorithm

\* A task is signed and sent to the party that verifies it.
SpecVerifier == InitSigner /\ [][NextVerifier]_vars

\* ------------------------------------------------------- the orchestrator
\* conversation_state of a /chat_turn request that starts a conversation:
\* left out, the initial one, or {}.
ChatStateInputs == {None, Some(initialize_agent), Some(EmptyState)}

\* conversation_state of a /chat_turn request that goes on with the
\* conversation of the /generate_response answered before: its new_state.
FollowUpStateInputs ==
    IF reply.endpoint = "/generate_response" /\ reply.status = 200
    THEN {Some(reply.body.new_state)}
    ELSE {}

\* What the language model answers the turn that follows with: nothing
\* it can parse, {}, or a state that asks to book or to clarify.
FollowUpAnswers ==
    {Raised("Exception"), EmptyState} \cup
    {ConversationState(intent, initialize_agent.parameters, item_to_book, is_confirmed) :
        intent \in {Some("BOOK_ITEM"), Some("CLARIFICATION")},
        item_to_book \in ItemToBookInputs, is_confirmed \in BOOLEAN}

\* POST /chat_turn, received and handled.  The two calls of the language
\* model made on the way return any conversation state and any text.
HandleChatTurn(conversation_states, answers) ==
    /\ chat = NoChat
    /\ \E api_key \in AgentApiKeyInputs, authorization \in AuthorizationInputs,
          user_input \in {None, Some(""), Some("book it")},
          conversation_state \in conversation_states,
          llm \in answers,
          response_text \in ResponseTextInputs :
        LET request       == ChatRequest(api_key, authorization, user_input, conversation_state)
            current_state == IF conversation_state = None THEN initialize_agent
                                                          ELSE conversation_state[1]
            nlu           == nlu_phase_llm(llm, current_state)
            agent_turn    == run_agent_turn(nlu, response_text, current_state, AGENT_PRIVATE_KEY)
            out           == handle_chat_turn(request, agent_turn)
        IN  /\ chat' = Chat(request, IF CallsAgent(request) THEN nlu ELSE <<>>,
                            out.status, out.body, out.ran)
            /\ turn' = IF CallsAgent(request) THEN agent_turn ELSE NotCalled
            /\ UNCHANGED <<AGENT_PRIVATE_KEY, reply, outsideOrchestrator>>

\* The first /chat_turn of a conversation.
ChatTurn ==
    /\ reply = NoReply
    /\ HandleChatTurn(ChatStateInputs, ConversationStateInputs \cup {Raised("Exception")})

\* The /chat_turn that follows a /generate_response.
FollowUpTurn ==
    /\ reply # NoReply
    /\ HandleChatTurn(FollowUpStateInputs, FollowUpAnswers)

\* GET /manifest, received and handled.
Manifest ==
    /\ chat = NoChat
    /\ reply = NoReply
    /\ \E api_key \in AgentApiKeyInputs :
        LET request == [X_ATP_Key |-> api_key]
            out     == get_manifest(request)
        IN  /\ reply' = Reply("/manifest", request, out.status, out.body, out.ran)
            /\ UNCHANGED <<AGENT_PRIVATE_KEY, chat, turn, outsideOrchestrator>>

\* POST /generate_response, received and handled.  The call of the
\* language model made on the way returns any text.
GenerateResponse ==
    /\ chat = NoChat
    /\ reply = NoReply
    /\ \E api_key \in AgentApiKeyInputs, task_results \in TaskResultsInputs,
          user_prompt \in UserPromptInputs, conversation_state \in GenerateStateInputs,
          final_response \in ResponseTextInputs :
        LET request == GenerateRequest(api_key, task_results, user_prompt, conversation_state)
            out     == handle_generate_response(request, final_response)
        IN  /\ reply' = Reply("/generate_response", request, out.status, out.body, out.ran)
            /\ UNCHANGED <<AGENT_PRIVATE_KEY, chat, turn, outsideOrchestrator>>

\* The orchestrator started with any key for the agent.
InitOrchestrator ==
    /\ InitSuppliers
    /\ DirectoryIdle
    /\ AGENT_PRIVATE_KEY \in PrivateKeyInputs
    /\ task_object = Obj(<<>>)
    /\ signed_task = NotCalled
    /\ rebuilt = Obj(<<>>)
    /\ signed_again = NotCalled
    /\ received = None
    /\ tampering = "none"
    /\ OrchestratorIdle
    /\ ClientIdle

NextOrchestrator ==
    \/ ChatTurn
    \/ Manifest
    \/ GenerateResponse

SpecOrchestrator == InitOrchestrator /\ [][NextOrchestrator]_vars

\* A conversation: the results of a task are reported, and a turn follows.
NextConversation ==
    \/ GenerateResponse
    \/ FollowUpTurn

SpecConversation == InitOrchestrator /\ [][NextConversation]_vars

\* ------------------------------------------------------------- the client
\* Step 1 of discoverAndNegotiate, then the launch of step 2.  A directory
\* that answers with an error leaves the round without suppliers.
DiscoverAndLaunch ==
    \E service_type \in ServiceTypes, requireVerified \in RequireVerifiedInputs,
       api_key \in ApiKeyInputs, auto_error \in AutoErrorStatus :
        LET request   == DiscoverRequest(service_type, requireVerified, api_key)
            out       == discover(request, REGISTERED_SUPPLIERS, auto_error)
            suppliers == IF out.status = 200 THEN out.body.suppliers ELSE <<>>
        IN  /\ discovered = None
            /\ discovered' = Some(suppliers)
            /\ negotiations' = launch(suppliers)
            /\ UNCHANGED <<offers, selection, commits, report, outsideClient>>

\* One of the concurrent negotiate calls settles.
Settle ==
    \E i \in 1..Len(negotiations) :
        /\ offers = None
        /\ negotiations[i].result = Pending
        /\ \E outcome \in NegotiationOutcomes(negotiations[i].supplier,
                                                negotiations[i].transactionId) :
               negotiations' = [negotiations EXCEPT ![i].result = outcome]
        /\ UNCHANGED <<discovered, offers, selection, commits, report, outsideClient>>

\* The round completes.
CompleteRound ==
    /\ discovered # None
    /\ offers = None
    /\ RoundSettled(negotiations)
    /\ offers' = Some(collect(negotiations))
    /\ UNCHANGED <<discovered, negotiations, selection, commits, report, outsideClient>>

\* selectBest over the result of the round.
SelectBest ==
    /\ offers # None
    /\ selection = None
    /\ selection' = Some(selectBest(offers[1]))
    /\ report' = IF HasRaised(selectBest(offers[1])) THEN Some(selectBest(offers[1]))
                                                      ELSE report
    /\ UNCHANGED <<discovered, negotiations, offers, commits, outsideClient>>

\* commit(Offer, transactionId): the request and its answer.
ClientCommit ==
    /\ selection # None
    /\ ~HasRaised(selection[1])
    /\ report = None
    /\ LET request == commit_request(selection[1])
       IN  /\ commits' = Append(commits, request)
           /\ \E answer \in CommitOutcomes(request) : report' = Some(answer)
    /\ UNCHANGED <<discovered, negotiations, offers, selection, outsideClient>>

NextClient ==
    \/ DiscoverAndLaunch
    \/ Settle
    \/ CompleteRound
    \/ SelectBest
    \/ ClientCommit

SpecClient == Init /\ [][NextClient]_vars

\* =============================================================== claims
\* A response was sent in this step.
Answered == resp' # resp

\* C1: commit is exactly-once.  The first commit answered for an offerId
\* after negotiate issued it returns CONFIRMED, and a commit for an offerId
\* that was CONFIRMED with no negotiate at that supplier since is answered
\* 404.
C1_CommitExactlyOnce ==
    [][(Answered /\ resp'.op = "commit") =>
          /\ (resp'.request.offerId \in unclaimed[resp'.supplier]
                 => resp'.status = 200 /\ resp'.body.status = "CONFIRMED")
          /\ (resp'.request.offerId \in spent[resp'.supplier]
                 => resp'.status = 404)]_vars

\* A second commit of a CONFIRMED offerId, no negotiate in between, was
\* answered 404.
C1_Witness ==
    /\ resp.op = "commit"
    /\ resp.status = 404
    /\ resp.request.offerId \in spent[resp.supplier]

\* C2: concurrent commits of one offerId.  At most one handler of a
\* supplier is ever between its membership test and its removal; while one
\* is, the next response and the next ledger change of that supplier are
\* its own CONFIRMED and pop; a commit is answered 404 only when the
\* offerId was absent, CONFIRMED otherwise, and after a CONFIRMED no
\* request for the same offerId still in flight finds the offer.
C2_ConcurrentCommits ==
    [][\A s \in Suppliers :
          /\ Cardinality(started'[s]) <= 1
          /\ \A r \in started[s] :
                /\ (Answered /\ resp'.supplier = s)
                       => (resp'.id = r.id /\ resp'.status = 200)
                /\ db_valid_offers'[s] # db_valid_offers[s]
                       => (Answered /\ resp'.id = r.id)
          /\ (Answered /\ resp'.op = "commit" /\ resp'.supplier = s) =>
                /\ resp'.status \in {200, 404}
                /\ resp'.status = 404
                       <=> ~DictContains(db_valid_offers[s], resp'.request.offerId)
                /\ resp'.status = 200 =>
                       /\ ~DictContains(db_valid_offers'[s], resp'.request.offerId)
                       /\ \A r \in started'[s] : r.offerId # resp'.request.offerId
                /\ resp'.request.offerId \in spent[s] => resp'.status = 404]_vars

\* One commit was CONFIRMED while an earlier request for the same offerId
\* is still in flight at that supplier.
C2_Witness ==
    /\ resp.op = "commit"
    /\ resp.status = 200
    /\ \E r \in inflight[resp.supplier] :
          r.offerId = resp.request.offerId /\ r.id < resp.id

\* C3: each offerId is consumed at most once.  An offerId removed by a
\* successful commit never reappears in the ledger, and no commit returns
\* CONFIRMED for an offerId that a commit already CONFIRMED.
C3_ConsumedAtMostOnce ==
    /\ [](\A s \in Suppliers : committed[s] \cap DictKeys(db_valid_offers[s]) = {})
    /\ [][(Answered /\ resp'.op = "commit" /\ resp'.status = 200)
              => resp'.request.offerId \notin committed[resp'.supplier]]_vars

\* C4: negotiate's response is decided by the budget alone.  maxPrice
\* absent or >= the supplier's price: exactly one Offer at the supplier's
\* price and no Rejection; maxPrice < price: exactly one Rejection and no
\* Offer.
C4_BudgetDecides ==
    resp.op = "negotiate" =>
        IF resp.request.maxPrice = None
              \/ resp.request.maxPrice[1] >= SupplierPrice(resp.supplier)
        THEN /\ Len(resp.body.offers) = 1
             /\ resp.body.offers[1].price = SupplierPrice(resp.supplier)
             /\ Len(resp.body.rejections) = 0
        ELSE /\ Len(resp.body.offers) = 0
             /\ Len(resp.body.rejections) = 1

\* agent_supplier.py answered maxPrice == its price with an Offer.
C4_Witness ==
    /\ resp.op = "negotiate"
    /\ resp.supplier = "AF"
    /\ resp.request.maxPrice = Some(OUR_PRICE_AF)
    /\ Len(resp.body.offers) = 1

\* C5: within one supplier, offers issued for distinct transactionIds have
\* distinct offerIds, and every ledger entry is stored under its own
\* offerId.
C5_DistinctOfferIds ==
    \A s \in Suppliers :
        /\ \A e1, e2 \in issued[s] :
              e1.transactionId # e2.transactionId => e1.offerId # e2.offerId
        /\ \A o \in DictKeys(db_valid_offers[s]) : db_valid_offers[s][o].offerId = o

\* One supplier holds two offers issued for two transactionIds.
C5_Witness ==
    \E s \in Suppliers : \E e1, e2 \in issued[s] :
        /\ e1.transactionId # e2.transactionId
        /\ {e1.offerId, e2.offerId} \subseteq DictKeys(db_valid_offers[s])

\* C6: every negotiate that issues an Offer stores it under an offerId that
\* is not yet a key of the ledger: the ledger gains exactly one entry and
\* keeps every entry it had.
C6_FreshOfferId ==
    [][(Answered /\ resp'.op = "negotiate" /\ Len(resp'.body.offers) = 1) =>
          /\ ~DictContains(db_valid_offers[resp'.supplier], resp'.body.offers[1].offerId)
          /\ DictKeys(db_valid_offers'[resp'.supplier])
                = DictKeys(db_valid_offers[resp'.supplier]) \cup {resp'.body.offers[1].offerId}
          /\ \A k \in DictKeys(db_valid_offers[resp'.supplier]) :
                db_valid_offers'[resp'.supplier][k] = db_valid_offers[resp'.supplier][k]]_vars

\* C7: the ledger's keys are exactly the issued offerIds minus the
\* committed ones.
C7_LedgerIsIssuedMinusCommitted ==
    \A s \in Suppliers : DictKeys(db_valid_offers[s]) = IssuedIds(s) \ committed[s]

\* C8: a commit whose offerId is absent from the ledger is answered 404
\* with no CommitRecord and leaves every ledger as it was.
C8_AbsentOfferNotFound ==
    [][(Answered /\ resp'.op = "commit"
           /\ ~DictContains(db_valid_offers[resp'.supplier], resp'.request.offerId)) =>
          /\ resp'.status = 404
          /\ resp'.body = NotFound(resp'.request)
          /\ db_valid_offers' = db_valid_offers]_vars

\* A commit of an offerId that the supplier never issued was answered 404
\* while the supplier held another offer.
C8_Witness ==
    /\ resp.op = "commit"
    /\ resp.status = 404
    /\ resp.request.offerId \notin IssuedIds(resp.supplier)
    /\ DictKeys(db_valid_offers[resp.supplier]) # {}

\* C9: negotiate writes exactly offerId -> Offer into its supplier's ledger
\* when it issues an Offer and leaves the ledger unchanged when it returns
\* a Rejection.
C9_NegotiateLedgerEffect ==
    [][(Answered /\ resp'.op = "negotiate") =>
          db_valid_offers' =
              IF Len(resp'.body.offers) = 1
              THEN [db_valid_offers EXCEPT ![resp'.supplier] =
                       DictSet(@, resp'.body.offers[1].offerId, resp'.body.offers[1])]
              ELSE db_valid_offers]_vars

\* A negotiate returned a Rejection while its supplier held an offer.
C9_Witness ==
    /\ resp.op = "negotiate"
    /\ Len(resp.body.rejections) = 1
    /\ DictKeys(db_valid_offers[resp.supplier]) # {}

\* C10: a commit answered after the offer's expiresAt never returns
\* CONFIRMED; it is answered 404.
C10_ExpiredOfferNotCommitted ==
    [][(/\ Answered
        /\ resp'.op = "commit"
        /\ DictContains(db_valid_offers[resp'.supplier], resp'.request.offerId)
        /\ "expiresAt" \in DOMAIN db_valid_offers[resp'.supplier][resp'.request.offerId]
        /\ now > db_valid_offers[resp'.supplier][resp'.request.offerId].expiresAt)
          => resp'.status = 404]_vars

\* C11: the confirmationId of a successful commit is a function of the
\* request's transactionId: two CONFIRMED commits of one supplier that
\* carry the same transactionId carry the same confirmationId.
C11_ConfirmationIdOfTransaction ==
    \A s \in Suppliers : \A c1, c2 \in confirmations[s] :
        c1.transactionId = c2.transactionId => c1.confirmationId = c2.confirmationId

SuppliersReturned ==
    IF discovery.status = 200 THEN discovery.body.suppliers ELSE <<>>

\* The registered suppliers that support service_type and, if verifiedOnly,
\* are verified.
Matching(service_type, verifiedOnly) ==
    {REGISTERED_SUPPLIERS[i] : i \in
        {k \in DOMAIN REGISTERED_SUPPLIERS :
            /\ InList(service_type, REGISTERED_SUPPLIERS[k].supportedServices)
            /\ verifiedOnly => REGISTERED_SUPPLIERS[k].isVerified}}

\* C13: whatever the registry holds, a /discover with requireVerified=true
\* that passed the credential check returns exactly the registered
\* suppliers that support the serviceType and are verified.
C13_VerifiedOnlyAndAll ==
    (looked_up /\ discovery.request.requireVerified = Some(TRUE)) =>
        {SuppliersReturned[i] : i \in 1..Len(SuppliersReturned)}
            = Matching(discovery.request.serviceType, TRUE)

\* A requireVerified=true discovery answered with suppliers while the
\* registry holds an unverified supplier of the same serviceType.
C13_Witness ==
    /\ looked_up
    /\ discovery.request.requireVerified = Some(TRUE)
    /\ discovery.status = 200
    /\ Matching(discovery.request.serviceType, FALSE)
          # Matching(discovery.request.serviceType, TRUE)

\* C14: a /discover that passed the credential check is answered 404
\* exactly when no registered supplier matches the serviceType and the
\* trust filter; otherwise it is answered 200 with a non-empty list.
C14_NotFoundIffNoMatch ==
    looked_up =>
        /\ discovery.status \in {200, 404}
        /\ discovery.status = 404
              <=> Matching(discovery.request.serviceType, min_trust(discovery.request)) = {}
        /\ discovery.status = 200 => Len(discovery.body.suppliers) > 0

\* A discovery answered 404 by a registry that has suppliers of the
\* serviceType, all of them unverified.
C14_Witness ==
    /\ looked_up
    /\ discovery.status = 404
    /\ Matching(discovery.request.serviceType, FALSE) # {}

\* C15: the credential is checked before the lookup: a request without
\* credential is answered 401 and one with a wrong credential 403, and in
\* both cases the registry is not looked at and no supplier is returned.
C15_CredentialBeforeLookup ==
    (discovery # NoDiscovery /\ discovery.request.api_key # Some(DIRECTORY_API_KEY)) =>
        /\ discovery.status = IF discovery.request.api_key = None THEN 401 ELSE 403
        /\ ~looked_up
        /\ SuppliersReturned = <<>>

\* The place of a registered supplier in the registry.
Position(supplier) ==
    CHOOSE k \in DOMAIN REGISTERED_SUPPLIERS : REGISTERED_SUPPLIERS[k] = supplier

\* C16: /discover does not change the registry, a request that repeats
\* the one before it returns the same suppliers, and the suppliers of a
\* response are in the order of their insertion into the registry.
C16_ReadOnlyAndStable ==
    [][/\ REGISTERED_SUPPLIERS' = REGISTERED_SUPPLIERS
       /\ repeated' => SuppliersReturned' = SuppliersReturned
       /\ \A i, j \in 1..Len(SuppliersReturned') :
             i < j => Position(SuppliersReturned'[i]) < Position(SuppliersReturned'[j])]_vars

\* A request repeated the one before it and was answered with two or
\* more suppliers.
C16_Witness ==
    /\ repeated
    /\ discovery.status = 200
    /\ Len(discovery.body.suppliers) >= 2

\* The signature of what _sign_task returned: None if it returned None.
SignatureOf(signed) == IF signed = None THEN None ELSE signed.signature

\* C18: two task objects with the same keys and values, built in
\* different insertion orders at any depth, are serialized to the same
\* bytes and get the same signature under the same key.
C18_SameObjectSameSignature ==
    (signed_task # NotCalled /\ signed_again # NotCalled) =>
        SignatureOf(signed_again) = SignatureOf(signed_task)

\* An object was signed again after being rebuilt with the keys of a
\* nested object inserted in another order.
C18_Witness ==
    /\ signed_again # NotCalled
    /\ signed_again # None
    /\ \E i \in 1..Len(Items(task_object)) :
          /\ KeyOf(Items(rebuilt)[i]) = KeyOf(Items(task_object)[i])
          /\ ValueOf(Items(rebuilt)[i]) # ValueOf(Items(task_object)[i])

TurnReturned == turn # NotCalled /\ ~HasRaised(turn)

\* C17: what run_agent_turn returns as task is None or a wrapper of the
\* task, a signature made over that task with the agent's key and the
\* algorithm "Ed25519"; when signing raises it is None, and the response
\* of /chat_turn carries no task.
C17_NeverUnsigned ==
    TurnReturned =>
        /\ turn.signed_task # None =>
              /\ DOMAIN turn.signed_task = {"task", "signature", "algorithm"}
              /\ turn.signed_task.algorithm = "Ed25519"
              /\ turn.signed_task.signature =
                    b64encode(Ed25519Sign(AGENT_PRIVATE_KEY, json_dumps(turn.signed_task.task)))
              /\ ~SignRaises(AGENT_PRIVATE_KEY)
        /\ SignRaises(AGENT_PRIVATE_KEY) =>
              /\ turn.signed_task = None
              /\ chat.status = 200
              /\ chat.body.signed_task = None

\* A complete flight search was understood while the agent's key could
\* not sign: the turn returned no task.
C17_Witness ==
    /\ TurnReturned
    /\ SignRaises(AGENT_PRIVATE_KEY)
    /\ chat.nlu # EmptyState
    /\ chat.nlu.intent = Some("SEARCH_FLIGHT")
    /\ chat.nlu.parameters.departure_date # <<>>
    /\ turn.signed_task = None

\* C19: the signed task in a response of /chat_turn is the one the agent
\* returned, with the same task, signature and algorithm; the user's
\* Authorization token is returned next to it as user_auth_token, for a
\* booking task only, and is not the X-ATP-Key; a booking task without
\* Authorization is answered 401 without task.
C19_SignedTaskUnaltered ==
    (TurnReturned /\ turn.signed_task # None) =>
        IF chat.status = 200
        THEN /\ chat.body.signed_task # None
             /\ chat.body.signed_task.task \in Reorderings(turn.signed_task.task)
             /\ chat.body.signed_task.signature = turn.signed_task.signature
             /\ chat.body.signed_task.algorithm = turn.signed_task.algorithm
             /\ chat.body.user_auth_token =
                   IF IsBookingTask(turn.signed_task) THEN chat.request.Authorization ELSE None
             /\ chat.body.user_auth_token # chat.request.X_ATP_Key
        ELSE /\ chat.status = 401
             /\ IsBookingTask(turn.signed_task)
             /\ chat.request.Authorization \in {None, Some("")}
             /\ chat.body.task = None

\* A booking task was returned together with the user's token.
C19_Witness ==
    /\ TurnReturned
    /\ turn.signed_task # None
    /\ IsBookingTask(turn.signed_task)
    /\ chat.status = 200
    /\ chat.body.user_auth_token = Some("Bearer user-token")

\* The place of an offer's supplier in the list the directory returned.
DiscoveryPosition(tagged) ==
    CHOOSE k \in 1..Len(discovered[1]) : discovered[1][k].name = tagged.supplier.name

\* C21: selectBest returns one of the collected offers, its price is the
\* minimum over them, and every other offer at that price comes from a
\* supplier later in discovery order; on an empty list it fails with
\* NoOffersError and no commit request is sent.
C21_SelectBestCheapestFirst ==
    selection # None =>
        IF offers[1] = <<>>
        THEN selection[1] = Raised("NoOffersError") /\ commits = <<>>
        ELSE /\ \E i \in 1..Len(offers[1]) : selection[1] = offers[1][i]
             /\ \A j \in 1..Len(offers[1]) :
                    /\ selection[1].offer.price <= offers[1][j].offer.price
                    /\ (/\ offers[1][j] # selection[1]
                        /\ offers[1][j].offer.price = selection[1].offer.price)
                       => DiscoveryPosition(selection[1]) < DiscoveryPosition(offers[1][j])

\* Three offers, the second and the third at the minimum price, and the
\* second selected.
C21_Witness ==
    /\ selection # None
    /\ offers # None
    /\ Len(offers[1]) = 3
    /\ offers[1][2].offer.price = offers[1][3].offer.price
    /\ offers[1][2].offer.price < offers[1][1].offer.price
    /\ selection[1] = offers[1][2]

\* The launched negotiations that settled with an Offer.
AnsweredWithOffer == {i \in 1..Len(negotiations) : negotiations[i].result.kind = "offer"}

\* C22: a round has a result only once every launched negotiation has
\* settled, whatever the others settled with and in whatever order; a
\* round whose negotiations all settled can complete; and the result is
\* exactly the Offers of the suppliers that answered with an Offer, each
\* once, tagged with its supplier.
C22_FailureNeverAbortsRound ==
    /\ offers # None =>
          /\ \A i \in 1..Len(negotiations) : negotiations[i].result # Pending
          /\ Len(offers[1]) = Cardinality(AnsweredWithOffer)
          /\ \A i \in AnsweredWithOffer :
                \E k \in 1..Len(offers[1]) :
                    /\ offers[1][k].offer = negotiations[i].result.offer
                    /\ offers[1][k].supplier.name = negotiations[i].supplier.name
    /\ (/\ discovered # None
        /\ offers = None
        /\ \A i \in 1..Len(negotiations) : negotiations[i].result # Pending)
       => ENABLED CompleteRound
    /\ (/\ offers = None
        /\ \E i \in 1..Len(negotiations) : negotiations[i].result = Pending)
       => ENABLED Settle

\* Three suppliers, one timed out, two answered with an Offer, and the
\* round yields two Offers.
C22_Witness ==
    /\ offers # None
    /\ Len(negotiations) = 3
    /\ \E i \in 1..3 : negotiations[i].result = Failed("timeout")
    /\ Cardinality(AnsweredWithOffer) = 2
    /\ Len(offers[1]) = 2

\* The negotiation that obtained the selected Offer.
Winning ==
    CHOOSE i \in 1..Len(negotiations) :
        /\ negotiations[i].result.kind = "offer"
        /\ negotiations[i].result.offer = selection[1].offer

\* C23: a shopping attempt sends at most one request to a supplier after
\* its round, and exactly one once it reported on a selected Offer: a
\* commit to the commitEndpoint of the winning supplier, with the
\* transactionId of the winning negotiation and the offerId of the
\* selected Offer.  A failed commit is what the attempt reports, and no
\* further request can follow it.
C23_OneCommitToWinner ==
    /\ Len(commits) <= 1
    /\ commits # <<>> =>
          /\ selection # None /\ ~HasRaised(selection[1])
          /\ commits[1].to = <<negotiations[Winning].supplier.baseUrl, "/commit">>
          /\ commits[1].transactionId = negotiations[Winning].transactionId
          /\ commits[1].offerId = negotiations[Winning].result.offer.offerId
          /\ report # None
    /\ (report # None /\ selection # None /\ ~HasRaised(selection[1])) =>
          /\ Len(commits) = 1
          /\ ~ENABLED ClientCommit
    /\ (selection # None /\ ~HasRaised(selection[1]) /\ report = None) =>
          ENABLED ClientCommit

\* The winner is not the supplier discovered first, its commit failed,
\* and the failure was reported after the one request.
C23_Witness ==
    /\ selection # None
    /\ ~HasRaised(selection[1])
    /\ Winning > 1
    /\ Len(commits) = 1
    /\ report = Some(Raised("NotFoundError"))

\* C24: after every step no supplier's ledger holds an offerId another
\* supplier issued; a commit answered by a supplier for an offerId only
\* another supplier issued is answered 404; and a step changes the
\* ledger of a supplier only if it is the answer of that supplier to a
\* negotiate or a commit.
C24_LedgersIsolated ==
    [][\A s \in Suppliers :
          /\ \A t \in Suppliers \ {s} :
                DictKeys(db_valid_offers'[s]) \cap IssuedIds(t)' = {}
          /\ (/\ Answered
              /\ resp'.supplier = s
              /\ resp'.op = "commit"
              /\ resp'.request.offerId \notin IssuedIds(s)) => resp'.status = 404
          /\ db_valid_offers'[s] # db_valid_offers[s] =>
                /\ Answered
                /\ resp'.supplier = s
                /\ resp'.op \in {"negotiate", "commit"}]_vars

\* agent_supplier.py answered 404 to a commit for an offerId that
\* agent_supplier_2.py issued and still holds.
C24_Witness ==
    /\ resp.supplier = "AF"
    /\ resp.op = "commit"
    /\ resp.status = 404
    /\ resp.request.offerId \in IssuedIds("B")
    /\ DictContains(db_valid_offers["B"], resp.request.offerId)

\* C25: a commit answered CONFIRMED leaves the supplier's ledger without
\* the committed offerId and with every other entry it held, unchanged,
\* and adds none.
C25_CommitRemovesOnlyItsOffer ==
    [][(Answered /\ resp'.op = "commit" /\ resp'.status = 200) =>
          LET s      == resp'.supplier
              before == db_valid_offers[s]
              after  == db_valid_offers'[s]
          IN  /\ resp'.request.offerId \in DictKeys(before)
              /\ DictKeys(after) = DictKeys(before) \ {resp'.request.offerId}
              /\ \A k \in DictKeys(after) : after[k] = before[k]]_vars

\* A commit was answered CONFIRMED by a supplier whose ledger still
\* holds another offer.
C25_Witness ==
    /\ resp.op = "commit"
    /\ resp.status = 200
    /\ DictKeys(db_valid_offers[resp.supplier]) # {}
    /\ resp.request.offerId \notin DictKeys(db_valid_offers[resp.supplier])

\* What a negotiate response decides: how many Offers and Rejections it
\* carries, and the price and currency of each Offer.
Decision(body) ==
    <<Len(body.offers), Len(body.rejections),
      [i \in 1..Len(body.offers) |-> <<body.offers[i].price, body.offers[i].currency>>]>>

\* Two IntentRequests equal in everything but serviceType, params,
\* requesterId and constraints.currency.
SameButUnreadFields(r1, r2) ==
    /\ r1.transactionId = r2.transactionId
    /\ r1.maxPrice = r2.maxPrice

\* C26: a supplier that answers two negotiate requests in a row which
\* differ at most in serviceType, params, requesterId and
\* constraints.currency decides both alike: an Offer at the same price
\* for both or a Rejection for both; and every Offer is in EUR.
C26_OnlyMaxPriceDecides ==
    [][(/\ Answered
        /\ resp'.op = "negotiate"
        /\ resp.op = "negotiate"
        /\ resp'.supplier = resp.supplier
        /\ SameButUnreadFields(resp.request, resp'.request)) =>
          /\ Decision(resp'.body) = Decision(resp.body)
          /\ \A i \in 1..Len(resp'.body.offers) : resp'.body.offers[i].currency = "EUR"]_vars

\* The request answered last differs from the demo client's in all four
\* fields and was answered with an Offer in EUR, after an earlier one.
C26_Witness ==
    /\ resp.op = "negotiate"
    /\ nreq >= 2
    /\ resp.request.serviceType = "booking:hotel"
    /\ resp.request.currency = Some("USD")
    /\ resp.request.requesterId = "urn:client:other"
    /\ resp.request.params = <<"LHR", "NRT", "2026-01-01">>
    /\ Len(resp.body.offers) = 1
    /\ resp.body.offers[1].currency = "EUR"

\* The requests the orchestrator answered, each with its X-ATP-Key, the
\* status and the body of the answer, and whether the wrapped handler ran.
GatedAnswers ==
    (IF chat = NoChat THEN {}
     ELSE {[endpoint |-> "/chat_turn", key |-> chat.request.X_ATP_Key,
            status |-> chat.status, fields |-> DOMAIN chat.body, ran |-> chat.ran]})
    \cup
    (IF reply = NoReply THEN {}
     ELSE {[endpoint |-> reply.endpoint, key |-> reply.request.X_ATP_Key,
            status |-> reply.status, fields |-> DOMAIN reply.body, ran |-> reply.ran]})

\* What every answer to a request that did not pass the gate is like:
\* the handler did not run, no agent turn was executed, and the body
\* carries an error and neither a task nor a state.
Refused(a) ==
    /\ ~a.ran
    /\ a.fields = {"error"}
    /\ a.endpoint = "/chat_turn" => turn = NotCalled

\* C27 as stated: on /manifest, /chat_turn and /generate_response a
\* request without the X-ATP-Key header is answered 401, a request with a
\* key other than AGENT_API_KEY is answered 403, in both cases the
\* wrapped handler does not run, and it runs only for AGENT_API_KEY.
C27_KeyGatesEveryEndpoint ==
    \A a \in GatedAnswers :
        /\ a.key = None => (a.status = 401 /\ Refused(a))
        /\ (a.key # None /\ a.key # Some(AGENT_API_KEY)) => (a.status = 403 /\ Refused(a))
        /\ a.ran <=> a.key = Some(AGENT_API_KEY)

\* C27, amended: a request without the X-ATP-Key header or with an empty
\* one is answered 401, a request with a non-empty key other than
\* AGENT_API_KEY is answered 403, in both cases the wrapped handler does
\* not run, and it runs only for AGENT_API_KEY.
C27_KeyGatesEveryEndpointEmptyIsMissing ==
    \A a \in GatedAnswers :
        /\ a.key \in {None, Some("")} => (a.status = 401 /\ Refused(a))
        /\ a.key \notin {None, Some(""), Some(AGENT_API_KEY)} =>
              (a.status = 403 /\ Refused(a))
        /\ a.ran <=> a.key = Some(AGENT_API_KEY)

\* /generate_response answered 401 to a request whose X-ATP-Key is
\* empty and that carries the results of a confirmed booking.
C27_Witness ==
    /\ reply.endpoint = "/generate_response"
    /\ reply.request.X_ATP_Key = Some("")
    /\ reply.request.task_results = Some(Obj(<<Pair("status", Str(<<"BOOKING_CONFIRMED">>))>>))
    /\ reply.status = 401
    /\ ~reply.ran

\* C28: when the agent produced a booking task and the request has no
\* Authorization header, /chat_turn answers 401 with task None and no
\* signed task; a signed booking task is returned only with a non-empty
\* user_auth_token; a signed task that is no booking is returned with
\* user_auth_token None.
C28_BookingNeedsAuthorization ==
    /\ (/\ TurnReturned
        /\ turn.signed_task # None
        /\ IsBookingTask(turn.signed_task)
        /\ chat.request.Authorization = None) =>
          /\ chat.status = 401
          /\ chat.body.task = None
          /\ "signed_task" \notin DOMAIN chat.body
    /\ (/\ chat # NoChat
        /\ "signed_task" \in DOMAIN chat.body
        /\ chat.body.signed_task # None) =>
          IF IsBookingTask(chat.body.signed_task)
          THEN /\ chat.body.user_auth_token # None
               /\ chat.body.user_auth_token[1] # ""
               /\ chat.body.user_auth_token = chat.request.Authorization
          ELSE chat.body.user_auth_token = None

\* The agent produced a booking task for a request without an
\* Authorization header, and the answer is 401.
C28_Witness ==
    /\ TurnReturned
    /\ turn.signed_task # None
    /\ IsBookingTask(turn.signed_task)
    /\ chat.request.Authorization = None
    /\ chat.status = 401

\* C29: core_processing_phase produces a booking task only for the
\* intent BOOK_ITEM with a non-empty item_to_book and is_confirmed true,
\* and a search task only when the three parameters of its search are
\* present; for CLARIFICATION, an unknown intent or a missing entity it
\* returns None and nothing is signed.
C29_TaskOnlyWhenComplete ==
    (turn # NotCalled /\ chat.nlu # EmptyState) =>
        LET intent   == chat.nlu.intent
            params   == chat.nlu.parameters
            context  == chat.nlu.booking_context
            produced == TurnReturned /\ turn.signed_task # None
            flight   == /\ intent = Some("SEARCH_FLIGHT")
                        /\ params.origin # <<>>
                        /\ params.destination # <<>>
                        /\ params.departure_date # <<>>
            hotel    == /\ intent = Some("SEARCH_HOTEL")
                        /\ params.location # <<>>
                        /\ params.check_in_date # <<>>
                        /\ params.check_out_date # <<>>
            booking  == /\ intent = Some("BOOK_ITEM")
                        /\ Truthy(context.item_to_book)
                        /\ context.is_confirmed
        IN  /\ (produced /\ IsBookingTask(turn.signed_task)) => booking
            /\ (produced /\ ~IsBookingTask(turn.signed_task)) => (flight \/ hotel)
            /\ ~(flight \/ hotel \/ booking) => (TurnReturned /\ turn.signed_task = None)

\* The NLU answered BOOK_ITEM with a flight to book that is not
\* confirmed, and the turn returned without a task.
C29_Witness ==
    /\ turn # NotCalled
    /\ chat.nlu # EmptyState
    /\ chat.nlu.intent = Some("BOOK_ITEM")
    /\ Truthy(chat.nlu.booking_context.item_to_book)
    /\ ~chat.nlu.booking_context.is_confirmed
    /\ TurnReturned
    /\ turn.signed_task = None

\* What /generate_response answered 200 with, against the state and the
\* task results it was given: the state is unchanged for empty results
\* and for results with an error, a flight or hotel search whose first
\* result has an item_id sets item_to_book and resets is_confirmed, and
\* a BOOKING_CONFIRMED result clears both.
StateUpdatedFromResults ==
    (reply.endpoint = "/generate_response" /\ reply.status = 200) =>
        LET given   == reply.request.conversation_state[1]
            new     == reply.body.new_state
            sent    == IF reply.request.task_results = None THEN Obj(<<>>)
                       ELSE reply.request.task_results[1]
            results == simulated(sent, reply.request.user_prompt[1])
            success == Truthy(results) /\ "error" \notin KeysOf(results)
            search  == Get(results, "search_type")
            best    == Get(results, "results")[2][1]
            found(type) ==
                [item_to_book |-> Obj(<<Pair("type", Str(<<type>>)),
                                        Pair("id", Get(best, "item_id")),
                                        Pair("price", Get(best, "price"))>>),
                 is_confirmed |-> FALSE]
        IN  /\ ~success => new = given
            /\ new # given => success
            /\ (/\ success
                /\ search \in {Str(<<"FLIGHT">>), Str(<<"HOTEL">>)}
                /\ "results" \in KeysOf(results)
                /\ Truthy(Get(best, "item_id"))) =>
                  new.booking_context = found(IF search = Str(<<"FLIGHT">>) THEN "flight"
                                                                            ELSE "hotel")
            /\ (/\ success
                /\ search \notin {Str(<<"FLIGHT">>), Str(<<"HOTEL">>)}
                /\ Get(results, "status") = Str(<<"BOOKING_CONFIRMED">>)) =>
                  new.booking_context = [item_to_book |-> Null, is_confirmed |-> FALSE]

\* /generate_response recorded a confirmed booking.
BookingRecorded ==
    /\ reply.endpoint = "/generate_response"
    /\ reply.status = 200
    /\ reply.request.task_results = Some(Obj(<<Pair("status", Str(<<"BOOKING_CONFIRMED">>))>>))
    /\ simulated(reply.request.task_results[1], reply.request.user_prompt[1])
          = reply.request.task_results[1]
    /\ reply.body.new_state.booking_context = [item_to_book |-> Null, is_confirmed |-> FALSE]

\* C30: _update_state_from_results changes the conversation state only
\* for successful task results: unchanged for empty results or an error,
\* item_to_book set and is_confirmed reset by a successful search with an
\* item_id, both cleared by BOOKING_CONFIRMED; and the turn that follows
\* a recorded booking, with the state it returned and no search result
\* recorded since, produces no booking task.
C30_NoBookingAfterConfirmedBooking ==
    /\ StateUpdatedFromResults
    /\ (BookingRecorded /\ TurnReturned /\ turn.signed_task # None) =>
          ~IsBookingTask(turn.signed_task)

\* C31: a /discover that leaves requireVerified out returns exactly the
\* verified suppliers of the serviceType, as one that passes true does,
\* and an unverified supplier is returned only to a request that passes
\* requireVerified=false.
C31_TrustFilterOnByDefault ==
    looked_up =>
        /\ discovery.request.requireVerified = None =>
              /\ \A i \in 1..Len(SuppliersReturned) : SuppliersReturned[i].isVerified
              /\ {SuppliersReturned[i] : i \in 1..Len(SuppliersReturned)}
                    = Matching(discovery.request.serviceType, TRUE)
        /\ (\E i \in 1..Len(SuppliersReturned) : ~SuppliersReturned[i].isVerified) =>
              discovery.request.requireVerified = Some(FALSE)

\* A discovery without requireVerified answered with suppliers while the
\* registry holds an unverified supplier of the same serviceType.
C31_Witness ==
    /\ looked_up
    /\ discovery.request.requireVerified = None
    /\ discovery.status = 200
    /\ \E supplier \in Matching(discovery.request.serviceType, FALSE) : ~supplier.isVerified
====
